---- MODULE Spec2Model ----
(***************************************************************************)
(* A model of the migration pipeline of the Strata backend:                *)
(*   backend/routes/migrate.py   dependency sequencer, statement           *)
(*                               reassembler, DDL executor, the structure  *)
(*                               and data migration tasks                   *)
(*   backend/ai.py               translate_schema and its fallbacks         *)
(*   backend/routes/validate.py  the validation run                         *)
(*   backend/routes/extract.py   the extraction task                        *)
(*                                                                         *)
(* DDL text is modelled as a sequence of tokens.  A token is a keyword, an *)
(* identifier, one punctuation character or one whitespace character, so   *)
(* that strip, split(';'), count('('), startswith, upper/lower and the     *)
(* regular expressions of the source are computed on the text and not      *)
(* assumed.                                                                *)
(***************************************************************************)
EXTENDS Integers, Sequences, FiniteSets, TLC

\* ------------------------------------------------------------------ bounds
\* Longest list of tables a generated schema holds.
MaxTables == 2

\* ------------------------------------------------------------ text helpers
Min(S) == CHOOSE x \in S : \A y \in S : x <= y

\* Pairs <<lower case, upper case>> of the tokens that have a case.
CaseTable ==
    << <<"create table", "CREATE TABLE">>, <<"foreign key", "FOREIGN KEY">>,
       <<"references", "REFERENCES">>, <<"int", "INT">>, <<"id", "ID">>,
       <<"x", "X">>, <<"a", "A">>, <<"b", "B">>, <<"c", "C">>,
       <<"d", "D">>, <<"i", "I">>, <<"on", "ON">>,
       <<"create index", "CREATE INDEX">>,
       <<"customers", "CUSTOMERS">>, <<"employees", "EMPLOYEES">>,
       <<"products", "PRODUCTS">>, <<"orders", "ORDERS">>,
       <<"order_items", "ORDER_ITEMS">>,
       <<"drop table if exists", "DROP TABLE IF EXISTS">>,
       <<"cascade", "CASCADE">>, <<"relation", "RELATION">>,
       <<"key", "KEY">>, <<"already exists", "ALREADY EXISTS">>,
       <<"duplicate", "DUPLICATE">>, <<"syntax error", "SYNTAX ERROR">>,
       <<"integer", "INTEGER">>, <<"varchar", "VARCHAR">>,
       <<"character varying", "CHARACTER VARYING">>, <<"text", "TEXT">>,
       <<"name", "NAME">>, <<"bigint", "BIGINT">> >>

\* The tokens that hold a blank or are not made of word characters only.
Phrases ==
    {"create table", "foreign key", "create index", "drop table if exists",
     "already exists", "syntax error", "character varying"}

\* str.lower() on one token.
LowerTok(t) ==
    IF \E i \in DOMAIN CaseTable : CaseTable[i][2] = t
    THEN CaseTable[CHOOSE i \in DOMAIN CaseTable : CaseTable[i][2] = t][1]
    ELSE t

\* str.upper() on one token.
UpperTok(t) ==
    IF \E i \in DOMAIN CaseTable : CaseTable[i][1] = t
    THEN CaseTable[CHOOSE i \in DOMAIN CaseTable : CaseTable[i][1] = t][2]
    ELSE t

\* str.lower() and str.upper() on a text.
Lower(s) == [i \in DOMAIN s |-> LowerTok(s[i])]
Upper(s) == [i \in DOMAIN s |-> UpperTok(s[i])]

\* The whitespace tokens (what \s matches and strip() removes).
WS == {" ", "\n"}

\* The tokens \w+ matches: every token with a case except the phrases.
IsWord(t) ==
    \E i \in DOMAIN CaseTable :
        /\ t \in {CaseTable[i][1], CaseTable[i][2]}
        /\ CaseTable[i][1] \notin Phrases

\* str.strip(): drop the leading and the trailing whitespace.
Strip(s) ==
    LET keep == {i \in DOMAIN s : s[i] \notin WS}
    IN  IF keep = {} THEN <<>>
        ELSE SubSeq(s, Min(keep), CHOOSE j \in keep : \A k \in keep : k <= j)

\* str.count(t).
Count(s, t) == Cardinality({i \in DOMAIN s : s[i] = t})

\* str.startswith / str.endswith for a one-token affix.
StartsWith(s, t) == Len(s) >= 1 /\ s[1] = t
EndsWith(s, t) == Len(s) >= 1 /\ s[Len(s)] = t

\* str.split(';'): the pieces between the ';' tokens, empty pieces included.
RECURSIVE SplitSemi(_)
SplitSemi(s) ==
    LET semis == {i \in DOMAIN s : s[i] = ";"}
    IN  IF semis = {} THEN <<s>>
        ELSE LET i == Min(semis)
             IN  <<SubSeq(s, 1, i - 1)>> \o SplitSemi(SubSeq(s, i + 1, Len(s)))

\* Concatenation of a sequence of texts.
RECURSIVE Concat(_)
Concat(ss) == IF ss = <<>> THEN <<>> ELSE Head(ss) \o Concat(Tail(ss))

\* The position of the identifier that follows position j after at least one
\* whitespace token (the \s+(\w+) tail of the patterns), 0 when there is none.
WordAfter(s, j) ==
    LET rest == {k \in (j + 1)..Len(s) : s[k] \notin WS}
    IN  IF rest = {} THEN 0
        ELSE LET k == Min(rest)
             IN  IF k > j + 1 /\ IsWord(s[k]) THEN k ELSE 0

\* ------------------------------------------------- patterns of migrate.py
\* re.findall(r'foreign key.*?references\s+(\w+)', ddl) on the lower-cased
\* DDL, scanning from position p: '.' does not cross a newline, the lazy
\* '.*?' stops at the first 'references' that is followed by an identifier,
\* and the scan resumes after the identifier.
RECURSIVE FkReferences(_, _)
FkReferences(s, p) ==
    LET starts == {i \in p..Len(s) : s[i] = "foreign key"}
    IN  IF starts = {} THEN <<>>
        ELSE LET i == Min(starts)
                 ends == {j \in (i + 1)..Len(s) :
                             /\ s[j] = "references"
                             /\ WordAfter(s, j) # 0
                             /\ \A k \in (i + 1)..(j - 1) : s[k] # "\n"}
             IN  IF ends = {} THEN FkReferences(s, i + 1)
                 ELSE LET w == WordAfter(s, Min(ends))
                      IN  <<s[w]>> \o FkReferences(s, w + 1)

\* re.findall(r'REFERENCES\s+(\w+)', statement_upper) from position p.
RECURSIVE AllReferences(_, _)
AllReferences(s, p) ==
    LET hits == {j \in p..Len(s) : s[j] = "REFERENCES" /\ WordAfter(s, j) # 0}
    IN  IF hits = {} THEN <<>>
        ELSE LET w == WordAfter(s, Min(hits))
             IN  <<s[w]>> \o AllReferences(s, w + 1)

\* re.search(r'CREATE TABLE\s+(\w+)', statement_upper): the position of the
\* captured name, 0 when the pattern does not match.
CreateTableName(s) ==
    LET hits == {i \in DOMAIN s : s[i] = "CREATE TABLE" /\ WordAfter(s, i) # 0}
    IN  IF hits = {} THEN 0 ELSE WordAfter(s, Min(hits))

\* ------------------------------------------------ the depth-first ordering
\* Both sorters run the same visit over a list of nodes [name, calls]:
\* calls is the list of nodes that visit() is called on, in call order.

\* Stand-in for the interpreter's recursion limit: a visit nested deeper
\* raises RecursionError.  No input of the model nests deeper than the
\* number of its tables.
StackLimit == MaxTables + 2

DfsInit ==
    [outer |-> 1, stack |-> <<>>, visited |-> {}, temp |-> {},
     sorted |-> <<>>, raised |-> FALSE]

\* visit without its "in temp_visited" return.
VisitReturnsEarly_NoCycleCheck(name, st) == name \in st.visited

\* The two early returns of visit / visit_table.
VisitReturnsEarly(name, st) == name \in st.temp \/ name \in st.visited

\* The call visit(k): return at once, or mark k in progress and descend.
EnterVisit(nodes, st, k) ==
    IF VisitReturnsEarly(nodes[k].name, st) THEN st
    ELSE IF Len(st.stack) >= StackLimit THEN [st EXCEPT !.raised = TRUE]
    ELSE [st EXCEPT !.stack = Append(@, [node |-> k, ci |-> 1]),
                    !.temp = @ \cup {nodes[k].name}]

\* The end of visit(k): k leaves temp_visited, joins visited and is emitted.
LeaveVisit(nodes, st) ==
    LET k == st.stack[Len(st.stack)].node
    IN  [st EXCEPT !.stack = SubSeq(@, 1, Len(@) - 1),
                   !.temp = @ \ {nodes[k].name},
                   !.visited = @ \cup {nodes[k].name},
                   !.sorted = Append(@, k)]

\* The guard of the outer loop: "if table_name not in visited".
OuterSkips(name, st) == name \in st.visited

\* One step of the sort: the next call of the innermost running visit, its
\* end, or the next iteration of the outer "visit all tables" loop.
VisitStep(nodes, st) ==
    IF st.stack # <<>>
    THEN LET top == st.stack[Len(st.stack)]
         IN  IF top.ci <= Len(nodes[top.node].calls)
             THEN EnterVisit(nodes,
                             [st EXCEPT !.stack[Len(st.stack)].ci = @ + 1],
                             nodes[top.node].calls[top.ci])
             ELSE LeaveVisit(nodes, st)
    ELSE IF st.outer <= Len(nodes)
    THEN LET st1 == [st EXCEPT !.outer = @ + 1]
         IN  IF OuterSkips(nodes[st.outer].name, st) THEN st1
             ELSE EnterVisit(nodes, st1, st.outer)
    ELSE st

DfsDone(nodes, st) == st.raised \/ (st.stack = <<>> /\ st.outer > Len(nodes))

\* The sort run to its end.
RECURSIVE RunDfs(_, _)
RunDfs(nodes, st) ==
    IF DfsDone(nodes, st) THEN st ELSE RunDfs(nodes, VisitStep(nodes, st))

\* Positions of the elements of a sequence that satisfy Test.
IndicesOf(seq, Test(_)) ==
    LET T(i) == Test(seq[i]) IN SelectSeq([i \in 1..Len(seq) |-> i], T)

\* ---- sort_tables_by_dependencies: records {name, ddl}
\* The keys of table_map in insertion order: each name once, at the place
\* of its first record.
RECURSIVE TableMapKeys(_, _)
TableMapKeys(tables, i) ==
    IF i > Len(tables) THEN <<>>
    ELSE (IF \E j \in 1..(i - 1) : tables[j].name = tables[i].name
          THEN <<>> ELSE <<tables[i].name>>) \o TableMapKeys(tables, i + 1)

\* table_map[name]: the last record stored under the name.
TableMapGet(tables, name) ==
    tables[CHOOSE i \in DOMAIN tables :
              /\ tables[i].name = name
              /\ \A j \in DOMAIN tables : tables[j].name = name => j <= i]

\* table_deps[name]: the foreign-key targets found in the lower-cased DDL.
TableDeps(table) == FkReferences(Lower(table.ddl), 1)

\* "if dep in table_map": the key is looked up as written in the record.
DepInTableMap(keys, dep) == \E k \in DOMAIN keys : keys[k] = dep

\* The nodes the record sorter visits.
TableNodes(tables) ==
    LET keys == TableMapKeys(tables, 1)
        KeyIs(dep) == LET T(n) == n = dep IN IndicesOf(keys, T)
    IN  [k \in DOMAIN keys |->
            LET deps == TableDeps(TableMapGet(tables, keys[k]))
            IN  [name  |-> keys[k],
                 calls |-> Concat([d \in DOMAIN deps |->
                              IF DepInTableMap(keys, deps[d])
                              THEN KeyIs(deps[d]) ELSE <<>>])]]

\* The records in the order the finished sort emitted them.
SortedTables(tables, st) ==
    LET keys == TableMapKeys(tables, 1)
    IN  [i \in DOMAIN st.sorted |-> TableMapGet(tables, keys[st.sorted[i]])]

sort_tables_by_dependencies(tables) ==
    SortedTables(tables, RunDfs(TableNodes(tables), DfsInit))

\* ---- sort_ddl_statements_by_dependencies: a list of statements
IsTableStatement(stmt) ==
    StartsWith(Upper(stmt), "CREATE TABLE") /\ CreateTableName(Upper(stmt)) # 0

\* table_statements: name and deps lower-cased, the statement kept as given.
TableStatements(stmts) ==
    LET idx == IndicesOf(stmts, IsTableStatement)
    IN  [k \in DOMAIN idx |->
            LET up == Upper(stmts[idx[k]])
            IN  [name |-> LowerTok(up[CreateTableName(up)]),
                 ddl  |-> stmts[idx[k]],
                 deps |-> Lower(AllReferences(up, 1))]]

OtherStatements(stmts) ==
    LET NotTable(s) == ~IsTableStatement(s)
        idx == IndicesOf(stmts, NotTable)
    IN  [k \in DOMAIN idx |-> stmts[idx[k]]]

\* The nodes the statement sorter visits: for each dep, every table
\* statement of that name, in list order.
StatementNodes(stmts) ==
    LET ts == TableStatements(stmts)
    IN  [k \in DOMAIN ts |->
            [name  |-> ts[k].name,
             calls |-> Concat([d \in DOMAIN ts[k].deps |->
                          LET T(o) == o.name = ts[k].deps[d]
                          IN  IndicesOf(ts, T)])]]

\* Sorted table statements first, then the other statements as given.
SortedStatements(stmts, st) ==
    LET ts == TableStatements(stmts)
    IN  [i \in DOMAIN st.sorted |-> ts[st.sorted[i]].ddl] \o OtherStatements(stmts)

sort_ddl_statements_by_dependencies(stmts) ==
    SortedStatements(stmts, RunDfs(StatementNodes(stmts), DfsInit))

\* ------------------------------------------ reassemble_ai_ddl_statements
ReassembleInit ==
    [statements |-> <<>>, current |-> <<>>, in_create_table |-> FALSE,
     paren_depth |-> 0]

ParenBalance(line) == Count(line, "(") - Count(line, ")")

\* "if current_statement.strip(): statements.append(...)" and the reset of
\* current_statement that follows it.
FlushCurrent(r) ==
    IF Strip(r.current) # <<>>
    THEN [r EXCEPT !.statements = Append(@, Strip(r.current)), !.current = <<>>]
    ELSE r

\* A fragment that starts with CREATE TABLE: it opens a new statement.
StartCreateTable(r, line) ==
    [r EXCEPT !.in_create_table = TRUE,
              !.paren_depth = ParenBalance(line),
              !.current = line]

\* A fragment met while a table definition is open: it is appended after a
\* blank, and the definition closes when the depth is back at 0 or below.
ContinueCreateTable(r, line) ==
    LET depth == r.paren_depth + ParenBalance(line)
    IN  [r EXCEPT !.current = @ \o <<" ">> \o line,
                  !.paren_depth = depth,
                  !.in_create_table = ~(depth <= 0)]

\* A fragment met while no table definition is open: the statement held so
\* far is completed and the fragment becomes the current statement.
StandaloneLine(r, line) == [FlushCurrent(r) EXCEPT !.current = line]

\* One iteration of the loop over the fragments.
ReassembleItem(r, item) ==
    LET line == Strip(item)
    IN  IF line = <<>> \/ line = <<";">>
        THEN IF Strip(r.current) # <<>>
             THEN [FlushCurrent(r) EXCEPT !.in_create_table = FALSE,
                                          !.paren_depth = 0]
             ELSE r
        ELSE IF StartsWith(Upper(line), "CREATE TABLE")
        THEN StartCreateTable(r, line)
        ELSE IF r.in_create_table
        THEN ContinueCreateTable(r, line)
        ELSE StandaloneLine(r, line)

RECURSIVE ReassembleLoop(_, _)
ReassembleLoop(r, ddl_list) ==
    IF ddl_list = <<>> THEN r
    ELSE ReassembleLoop(ReassembleItem(r, Head(ddl_list)), Tail(ddl_list))

\* The loop, then "Handle any remaining statement".
reassemble_ai_ddl_statements(ddl_list) ==
    FlushCurrent(ReassembleLoop(ReassembleInit, ddl_list)).statements

\* ------------------------------------------------ extract_ddl_statements
\* The cleaning of one record's DDL in the structured shape: strip, drop one
\* trailing ';', strip again.
CleanDdl(ddl) ==
    LET d == Strip(ddl)
    IN  IF EndsWith(d, ";") THEN Strip(SubSeq(d, 1, Len(d) - 1)) ELSE d

\* The statements of a list of records, empty ones left out.
CleanedStatements(records) ==
    LET NonEmpty(r) == CleanDdl(r.ddl) # <<>>
        idx == IndicesOf(records, NonEmpty)
    IN  [k \in DOMAIN idx |-> CleanDdl(records[idx[k]].ddl)]

\* The single-string shape: split on ';', strip, drop the empty parts.
SplitStatements(text) ==
    LET parts == SplitSemi(text)
        NonEmpty(part) == Strip(part) # <<>>
        idx == IndicesOf(parts, NonEmpty)
    IN  [k \in DOMAIN idx |-> Strip(parts[idx[k]])]

\* The statements extract_ddl_statements returns once the tables of a
\* structured input are sorted.
StructuredStatements(sorted_tables, data) ==
    CleanedStatements(sorted_tables) \o CleanedStatements(data.indexes)

\* ddl_data is [shape, ...]: "dict" with fields tables and indexes, "list"
\* with field items, "str" with field text.
extract_ddl_statements(data) ==
    CASE data.shape = "dict" ->
            StructuredStatements(sort_tables_by_dependencies(data.tables), data)
      [] data.shape = "list" -> reassemble_ai_ddl_statements(data.items)
      [] data.shape = "str" -> SplitStatements(data.text)

\* ------------------------------------------------------- generated schemas
\* The inputs of the sequencer are renderings of small schemas: a list of
\* tables with distinct names, each with the tables it references.
NameList == <<"a", "b", "c", "d">>
Names == {NameList[i] : i \in 1..MaxTables}

\* The reference lists of one table: at most two targets, written in the
\* order of NameList.
RefSeqs ==
    {<<>>} \cup {<<n>> : n \in Names}
           \cup {<<NameList[q[1]], NameList[q[2]]>> :
                    q \in {r \in (1..MaxTables) \X (1..MaxTables) : r[1] < r[2]}}

TableSet == [name : Names, refs : RefSeqs]

Schemas ==
    UNION {{sc \in [1..n -> TableSet] :
               \A i \in 1..n, j \in 1..n : i # j => sc[i].name # sc[j].name} :
           n \in 0..MaxTables}

\* How a schema is written down.  style: a table-level FOREIGN KEY clause
\* or a column-level REFERENCES; upper: the table names in upper case;
\* split: one fragment per table or one per line; sep: what follows a
\* table in a fragment list; index: a CREATE INDEX fragment follows each
\* table of a fragment list; twice: the first table is written a second
\* time at the end of a list of records or of statements.
GenSet ==
    [tables : Schemas, style : {"fk", "inline"}, upper : BOOLEAN,
     shape : {"dict"}, split : {"whole"}, sep : {"none"}, index : {FALSE},
     twice : BOOLEAN]
    \cup
    [tables : Schemas, style : {"fk", "inline"}, upper : {FALSE},
     shape : {"stmts"}, split : {"whole"}, sep : {"none"}, index : {FALSE},
     twice : BOOLEAN]
    \cup
    [tables : Schemas, style : {"fk"}, upper : {FALSE},
     shape : {"list"}, split : {"whole", "lines"},
     sep : {"none", "semi", "blank"}, index : BOOLEAN, twice : {FALSE}]
    \cup
    [tables : Schemas, style : {"fk"}, upper : {FALSE},
     shape : {"str"}, split : {"whole"}, sep : {"none"}, index : {FALSE},
     twice : {FALSE}]

NameAs(g, n) == IF g.upper THEN UpperTok(n) ELSE n

\* The line that declares one reference.
RefLine(g, dep) ==
    (IF g.style = "fk"
     THEN <<"FOREIGN KEY", " ", "(", "x", ")", " ">>
     ELSE <<"x", " ", "INT", " ">>)
    \o <<"REFERENCES", " ", NameAs(g, dep), "(", "id", ")">>

\* The lines of CREATE TABLE name (id INT, <references>), without the
\* final ';'.
TableLines(g, t) ==
    <<  <<"CREATE TABLE", " ", NameAs(g, t.name), " ", "(">>,
        <<"id", " ", "INT">> \o (IF t.refs = <<>> THEN <<>> ELSE <<",">>)  >>
    \o [i \in DOMAIN t.refs |->
           RefLine(g, t.refs[i]) \o (IF i < Len(t.refs) THEN <<",">> ELSE <<>>)]
    \o << <<")">> >>

TableDdl(g, t) == Concat(TableLines(g, t))

\* The fragment that creates an index on a table.
IndexFragment(g, t) ==
    <<"CREATE INDEX", " ", "i", " ", "ON", " ", NameAs(g, t.name),
      "(", "id", ")", ";">>

\* The fragments of one table in a fragment list.
TableFragments(g, t) ==
    LET semi == IF g.sep = "semi" THEN <<>> ELSE <<";">>
        lines == TableLines(g, t)
        body == IF g.split = "whole" THEN <<TableDdl(g, t) \o semi>>
                ELSE [i \in DOMAIN lines |->
                         IF i = Len(lines) THEN lines[i] \o semi ELSE lines[i]]
    IN  body \o (CASE g.sep = "semi" -> << <<";">> >>
                   [] g.sep = "blank" -> << <<>> >>
                   [] OTHER -> <<>>)
             \o (IF g.index THEN <<IndexFragment(g, t)>> ELSE <<>>)

\* The tables of a generated schema as they are written down.
Written(g) ==
    IF g.twice /\ g.tables # <<>> THEN Append(g.tables, g.tables[1])
    ELSE g.tables

\* The value handed to the sequencer for a generated schema.
Render(g) ==
    CASE g.shape = "dict" ->
            [shape |-> "dict",
             tables |-> [i \in DOMAIN Written(g) |->
                            [name |-> NameAs(g, Written(g)[i].name),
                             ddl |-> TableDdl(g, Written(g)[i])]],
             indexes |-> <<>>]
      [] g.shape = "list" ->
            [shape |-> "list",
             items |-> Concat([i \in DOMAIN g.tables |->
                                  TableFragments(g, g.tables[i])])]
      [] g.shape = "str" ->
            [shape |-> "str",
             text |-> Concat([i \in DOMAIN g.tables |->
                                 TableDdl(g, g.tables[i]) \o <<";", "\n">>])]
      [] g.shape = "stmts" ->
            [shape |-> "stmts",
             items |-> [i \in DOMAIN Written(g) |-> TableDdl(g, Written(g)[i])]]

\* ---------------------------------------------------------- Python values
\* An optional value: None is the empty tuple, a value v is <<v>>.
None == <<>>
Some(v) == <<v>>

\* bool(value) of a translated DDL: a dict with a key, a non-empty list, a
\* non-empty string.
Truthy(v) ==
    CASE v.shape = "dict" -> TRUE
      [] v.shape = "list" -> v.items # <<>>
      [] v.shape = "str" -> v.text # <<>>

\* ------------------------------------------------ translate_schema (ai.py)
\* The fixed schemas are written with lower-case names and table-level
\* FOREIGN KEY clauses; of the columns the model keeps id and the foreign
\* keys.
FixedStyle == [style |-> "fk", upper |-> FALSE]

FixedTable(name, refs) ==
    [name |-> name,
     ddl |-> TableDdl(FixedStyle, [name |-> name, refs |-> refs])]

\* The five tables returned when no API key is configured.
DemoSchema ==
    [shape |-> "dict",
     tables |-> << FixedTable("customers", <<>>),
                   FixedTable("employees", <<>>),
                   FixedTable("products", <<>>),
                   FixedTable("orders", <<"customers">>),
                   FixedTable("order_items", <<"orders", "products">>) >>,
     indexes |-> <<>>]

\* The schema returned when the reply is not JSON.
CustomersSchema ==
    [shape |-> "dict", tables |-> <<FixedTable("customers", <<>>)>>,
     indexes |-> <<>>]

\* {"tables": []}: returned when the reply has no content and when the call
\* raises.
EmptySchema == [shape |-> "dict", tables |-> <<>>, indexes |-> <<>>]

\* A result {"translated_ddl": ddl, "notes": notes}.
TranslationResult(ddl, notes) ==
    [type |-> "dict", has_ddl |-> TRUE, translated_ddl |-> ddl, notes |-> notes]

\* The JSON documents a reply can hold, and the value json.loads gives for
\* each: a structured schema with an index, a fragment list, a single
\* string, an array in place of the object, an object without
\* "translated_ddl".
JsonDocs == {"doc_tables", "doc_fragments", "doc_text", "doc_array", "doc_notes"}

DocSchema == <<[name |-> "a", refs |-> <<"b">>], [name |-> "b", refs |-> <<>>]>>

JsonValue(doc) ==
    CASE doc = "doc_tables" ->
            TranslationResult(
                [shape |-> "dict",
                 tables |-> [k \in DOMAIN DocSchema |->
                                [name |-> DocSchema[k].name,
                                 ddl |-> TableDdl(FixedStyle, DocSchema[k])
                                            \o <<";">>]],
                 indexes |-> << [name |-> "i",
                                 ddl |-> <<"CREATE INDEX", " ", "i", " ", "ON",
                                           " ", "a", "(", "id", ")">>] >>],
                "translated")
      [] doc = "doc_fragments" ->
            TranslationResult(
                [shape |-> "list",
                 items |-> TableFragments(
                               [style |-> "fk", upper |-> FALSE,
                                split |-> "lines", sep |-> "none",
                                index |-> FALSE],
                               DocSchema[2])],
                "translated")
      [] doc = "doc_text" ->
            TranslationResult(
                [shape |-> "str",
                 text |-> Concat([k \in DOMAIN DocSchema |->
                             TableDdl(FixedStyle, DocSchema[k]) \o <<";", "\n">>])],
                "translated")
      [] doc = "doc_array" -> [type |-> "list"]
      [] doc = "doc_notes" ->
            [type |-> "dict", has_ddl |-> FALSE,
             translated_ddl |-> [shape |-> "str", text |-> <<>>],
             notes |-> "translated"]

\* What the chat completion call does: it raises, or it returns a message
\* whose content is None or a text.
OracleReplies ==
    {[kind |-> "raises", content |-> <<>>], [kind |-> "none", content |-> <<>>]}
    \cup
    [kind : {"text"},
     content : {<<d>> : d \in JsonDocs}
               \cup {<<"<fence>json", "\n", "doc_tables", "\n", "<fence>", "\n">>,
                     <<"<fence>", "\n", "doc_text">>,
                     <<"Sorry", " ", "doc_tables">>}]

\* The content without its code-block wrapper: strip, drop the opening
\* fence (three backquotes, with or without "json"), drop a closing fence,
\* strip.
CleanedContent(content) ==
    LET c == Strip(content)
        body == Tail(c)
    IN  IF StartsWith(c, "<fence>json") \/ StartsWith(c, "<fence>")
        THEN Strip(IF EndsWith(body, "<fence>")
                   THEN SubSeq(body, 1, Len(body) - 1) ELSE body)
        ELSE c

\* json.loads succeeds on a text that is one JSON document.
IsJson(text) == Len(text) = 1 /\ text[1] \in JsonDocs

translate_schema(api_key, reply) ==
    IF ~api_key
    THEN TranslationResult(DemoSchema, "demo mode - no AI key configured")
    ELSE CASE reply.kind = "raises" ->
                 TranslationResult(EmptySchema, "AI translation failed")
           [] reply.kind = "none" ->
                 TranslationResult(EmptySchema, "AI returned empty response")
           [] OTHER ->
                 IF IsJson(CleanedContent(reply.content))
                 THEN JsonValue(CleanedContent(reply.content)[1])
                 ELSE TranslationResult(CustomersSchema,
                          "AI translation returned non-JSON response")

\* ------------------------------------ apply_ddl_to_target: the text it reads
\* The statements apply_ddl_to_target extracts from the value it is given: a
\* dict goes to extract_ddl_statements, a list to the reassembler, and a
\* string that is not JSON is split on ';'.
StatementsToApply(ddl_data) ==
    CASE ddl_data.shape = "dict" -> extract_ddl_statements(ddl_data)
      [] ddl_data.shape = "list" -> reassemble_ai_ddl_statements(ddl_data.items)
      [] ddl_data.shape = "str" -> SplitStatements(ddl_data.text)

\* "not statement or statement.isspace()".
IsBlankStatement(stmt) == \A k \in DOMAIN stmt : stmt[k] \in WS

\* str.rstrip(';').
RECURSIVE RStripSemi(_)
RStripSemi(s) ==
    IF EndsWith(s, ";") THEN RStripSemi(SubSeq(s, 1, Len(s) - 1)) ELSE s

\* cleaned_statement = statement.strip().rstrip(';').
CleanedStatement(stmt) == RStripSemi(Strip(stmt))

\* The position of the name that
\* create\s+table(?:\s+if\s+not\s+exists)?\s+["']?(\w+)["']? captures in a
\* statement, 0 when the pattern does not match.  No statement of the model
\* holds IF NOT EXISTS.
QuotedWordAfter(s, j) ==
    LET rest == {k \in (j + 1)..Len(s) : s[k] \notin WS}
    IN  IF rest = {} THEN 0
        ELSE LET k == Min(rest)
             IN  IF k = j + 1 THEN 0
                 ELSE IF IsWord(s[k]) THEN k
                 ELSE IF s[k] \in {"\"", "'"} /\ k < Len(s) /\ IsWord(s[k + 1])
                 THEN k + 1
                 ELSE 0

TableMatch(s) ==
    LET hits == {j \in DOMAIN s :
                    LowerTok(s[j]) = "create table" /\ QuotedWordAfter(s, j) # 0}
    IN  IF hits = {} THEN 0 ELSE QuotedWordAfter(s, Min(hits))

\* The drop without its CASCADE.
DropStatement_NoCascade(table_name) ==
    <<"DROP TABLE IF EXISTS", " ", "\"", table_name, "\"">>

\* f'DROP TABLE IF EXISTS "{table_name}" CASCADE'.
DropStatement(table_name) ==
    <<"DROP TABLE IF EXISTS", " ", "\"", table_name, "\"", " ", "CASCADE">>

\* The messages the target gives for a statement it rejects.
ErrorMessages ==
    {<<"relation", " ", "already exists">>, <<"DUPLICATE", " ", "key">>,
     <<"SYNTAX ERROR">>}

\* '"already exists" in error_msg or "duplicate" in error_msg' on the
\* lower-cased message.
IndicatesExisting(message) ==
    LET error_msg == Lower(message)
    IN  \E k \in DOMAIN error_msg : error_msg[k] \in {"already exists", "duplicate"}

\* ------------------------------------------------- the target connection
\* A connection is [made, open, autocommit, pending]: pending holds the
\* statements executed in the open transaction.
NoConnection ==
    [made |-> FALSE, open |-> FALSE, autocommit |-> FALSE, pending |-> {}]

\* The engines connect_to_database connects to.
SupportedTypes == {"MySQL", "PostgreSQL"}

\* connect_to_database: the MySQL connection is made with autocommit on,
\* the PostgreSQL connection with the driver's default, a transaction.
connect_to_database(db_type) ==
    [made |-> TRUE, open |-> TRUE, autocommit |-> (db_type = "MySQL"),
     pending |-> {}]

\* cursor.execute of a statement the target accepts: durable at once on an
\* autocommit connection, pending otherwise.
ExecuteOk(conn, id) ==
    IF conn.autocommit THEN conn ELSE [conn EXCEPT !.pending = @ \cup {id}]

DurableAfterExecute(conn, id, durable) ==
    IF conn.autocommit THEN durable \cup {id} ELSE durable

\* connection.commit(), connection.rollback(), connection.close().
Commit(conn) == [conn EXCEPT !.pending = {}]
DurableAfterCommit(conn, durable) == durable \cup conn.pending
Rollback(conn) == [conn EXCEPT !.pending = {}]
Close(conn) == [conn EXCEPT !.open = FALSE, !.pending = {}]

\* ------------------------------------------------------------------ bounds
\* Runs started in one behaviour, and failures the environment (the
\* databases, the file system, the session store) produces in one behaviour.
MaxRuns == 1

\* The runs of one stage that may be started while others are under way,
\* and the failures the environment may produce in them.
MaxOverlap == 2
MaxOverlapFaults == 1
MaxFaults == 2

\* The columns of a table and the rows of a table the checks of validate.py
\* are called with.
MaxColumns == 2
MaxCount == 2

\* ------------------------------------------------------------------ state
VARIABLES
    gen,         \* sequencer: the generated schema and how it is written
    ddl_data,    \* sequencer: the input value
    seq_pc,      \* sequencer: "idle", "call", "sorting", "done", "raised"
    nodes,       \* sequencer: the nodes of the running sort
    dfs,         \* sequencer: outer index, visit stack, visited, temp, sorted
    statements,  \* sequencer: the returned statement list
    stage,       \* the stage whose endpoints the behaviour exercises
    api_key,     \* ai.py: OPENAI_API_KEY is configured
    target_type, \* dbType of the target connection of the session
    status,      \* the status record of the stage (a module global)
    tasks,       \* the background tasks, by run number
    loop,        \* the run that holds the event loop, 0 when it is free
    faults,      \* failures the environment has produced so far
    durable,     \* statements whose effect the target database keeps
    probe        \* validate.py: a check called on its own, and what it returned

seq_vars == <<gen, ddl_data, seq_pc, nodes, dfs, statements>>

stage_vars == <<stage, api_key, target_type, status, tasks, loop, faults, durable,
               probe>>

vars == <<gen, ddl_data, seq_pc, nodes, dfs, statements,
          stage, api_key, target_type, status, tasks, loop, faults, durable,
          probe>>

Stages == {"extraction", "structure", "data", "validation"}
\* The runs of a behaviour: the background tasks it may start.
Runs == DOMAIN tasks

\* The status globals as the modules define them at import.  original is
\* the key translated_queries_original, which only a structure run adds.
StatusAtImport ==
    [phase |-> None, percent |-> 0, done |-> FALSE, error |-> None,
     notes |-> None, original |-> None, results |-> None]

\* The record a run binds the global to when it starts.
StatusAtReset == [StatusAtImport EXCEPT !.phase = Some("Initializing")]

\* A run that has not been started.  waiting: the task is queued or parked
\* at an await and goes on when the event loop is free.
TaskAtStart ==
    [pc |-> "unused", waiting |-> TRUE, exc |-> None, k |-> 0,
     conn |-> NoConnection, source_conn |-> NoConnection, db_type |-> "",
     ddl_statements |-> <<>>, i |-> 0, executed_count |-> 0,
     stmt_error |-> None, sent |-> <<>>, results |-> <<>>,
     reply |-> [kind |-> "unused", content |-> <<>>]]

\* No check of validate.py is called on its own.
NoProbe == [fn |-> "none", pc |-> "idle"]

\* No stage is exercised: the state of the pipeline in the behaviours of the
\* sequencer.
StageIdle ==
    /\ probe = NoProbe
    /\ stage = "none"
    /\ api_key = FALSE
    /\ target_type = "PostgreSQL"
    /\ status = StatusAtImport
    /\ tasks = [t \in 1..MaxRuns |-> TaskAtStart]
    /\ loop = 0
    /\ faults = 0
    /\ durable = {}

\* -------------------------------------------------- the sequencer at work
SeqInit ==
    /\ gen \in GenSet
    /\ ddl_data = Render(gen)
    /\ seq_pc = "call"
    /\ nodes = <<>>
    /\ dfs = DfsInit
    /\ statements = <<>>
    /\ StageIdle

\* extract_ddl_statements on a fragment list or a single string: no sort.
ExtractFlat ==
    /\ seq_pc = "call"
    /\ ddl_data.shape \in {"list", "str"}
    /\ statements' = extract_ddl_statements(ddl_data)
    /\ seq_pc' = "done"
    /\ UNCHANGED <<gen, ddl_data, nodes, dfs>>
    /\ UNCHANGED stage_vars

\* extract_ddl_statements on the structured shape enters
\* sort_tables_by_dependencies.
BeginSortTables ==
    /\ seq_pc = "call"
    /\ ddl_data.shape = "dict"
    /\ nodes' = TableNodes(ddl_data.tables)
    /\ dfs' = DfsInit
    /\ seq_pc' = "sorting"
    /\ UNCHANGED <<gen, ddl_data, statements>>
    /\ UNCHANGED stage_vars

\* sort_ddl_statements_by_dependencies on a statement list.
BeginSortStatements ==
    /\ seq_pc = "call"
    /\ ddl_data.shape = "stmts"
    /\ nodes' = StatementNodes(ddl_data.items)
    /\ dfs' = DfsInit
    /\ seq_pc' = "sorting"
    /\ UNCHANGED <<gen, ddl_data, statements>>
    /\ UNCHANGED stage_vars

SortStep ==
    /\ seq_pc = "sorting"
    /\ ~DfsDone(nodes, dfs)
    /\ dfs' = VisitStep(nodes, dfs)
    /\ UNCHANGED <<gen, ddl_data, seq_pc, nodes, statements>>
    /\ UNCHANGED stage_vars

\* The sort returns; the structured shape goes on to clean each DDL.
EndSort ==
    /\ seq_pc = "sorting"
    /\ DfsDone(nodes, dfs)
    /\ seq_pc' = IF dfs.raised THEN "raised" ELSE "done"
    /\ statements' =
          IF dfs.raised THEN <<>>
          ELSE IF ddl_data.shape = "dict"
          THEN StructuredStatements(SortedTables(ddl_data.tables, dfs), ddl_data)
          ELSE SortedStatements(ddl_data.items, dfs)
    /\ UNCHANGED <<gen, ddl_data, nodes, dfs>>
    /\ UNCHANGED stage_vars

SeqNext ==
    \/ ExtractFlat
    \/ BeginSortTables
    \/ BeginSortStatements
    \/ SortStep
    \/ EndSort

SpecSeq == SeqInit /\ [][SeqNext]_vars

\* ---------------------------------------------------- the stages at work
\* One stage is exercised per behaviour.  The API key and the target engine
\* are read by the structure migration (the target engine by the data
\* migration too); they are fixed for the stages that do not read them.
StageInit ==
    /\ stage \in Stages
    /\ api_key \in (IF stage = "structure" THEN BOOLEAN ELSE {TRUE})
    /\ target_type \in (IF stage \in {"structure", "data"}
                        THEN {"PostgreSQL", "MySQL", "Snowflake"}
                        ELSE {"PostgreSQL"})
    /\ status = StatusAtImport
    /\ tasks = [t \in 1..MaxRuns |-> TaskAtStart]
    /\ loop = 0
    /\ faults = 0
    /\ durable = {}
    /\ probe = NoProbe
    /\ gen = [tables |-> <<>>, style |-> "fk", upper |-> FALSE,
              shape |-> "str", split |-> "whole", sep |-> "none",
              index |-> FALSE, twice |-> FALSE]
    /\ ddl_data = Render(gen)
    /\ seq_pc = "idle"
    /\ nodes = <<>>
    /\ dfs = DfsInit
    /\ statements = <<>>

\* The environment may fail once more.
MayFail == faults < MaxFaults

\* Task t can take its next step: it holds the event loop, or it waits and
\* the loop is free.
Ready(t) == IF tasks[t].waiting THEN loop = 0 ELSE loop = t

\* background_tasks.add_task: the first run not yet started is queued.
AddTask(stg) ==
    /\ stage = stg
    /\ loop = 0
    /\ \E t \in Runs :
          /\ tasks[t].pc = "unused"
          /\ \A u \in 1..(t - 1) : tasks[u].pc # "unused"
          /\ tasks' = [tasks EXCEPT ![t].pc = "queued"]
    /\ UNCHANGED <<stage, api_key, target_type, loop, faults, durable, probe>>
    /\ UNCHANGED seq_vars

\* The assignments the four start handlers share.
StatusAtStart == [status EXCEPT !.phase = Some("Starting"), !.percent = 0,
                                !.done = FALSE, !.error = None]

\* POST /api/extract/start.
start_extraction ==
    /\ AddTask("extraction")
    /\ status' = StatusAtStart

\* POST /api/migrate/structure.
migrate_structure ==
    /\ AddTask("structure")
    /\ status' = [StatusAtStart EXCEPT !.notes = None]

\* POST /api/migrate/data.
migrate_data ==
    /\ AddTask("data")
    /\ status' = StatusAtStart

\* POST /api/validate/run.
run_validation ==
    /\ AddTask("validation")
    /\ status' = StatusAtStart

\* A read handler answers a request when the event loop is free; what it
\* returns is the record of the stage itself, or values read from it.
Reads(stg, fn) ==
    /\ stage = stg
    /\ loop = 0
    /\ probe' = [fn |-> fn, pc |-> "returned"]
    /\ UNCHANGED <<stage, api_key, target_type, tasks, loop, faults, durable>>
    /\ UNCHANGED seq_vars

\* GET /api/extract/status.
get_extraction_status ==
    /\ Reads("extraction", "get_extraction_status")
    /\ UNCHANGED status

\* GET /api/migrate/structure/status.
get_structure_migration_status ==
    /\ Reads("structure", "get_structure_migration_status")
    /\ UNCHANGED status

\* GET /api/migrate/data/status.
get_data_migration_status ==
    /\ Reads("data", "get_data_migration_status")
    /\ UNCHANGED status

\* GET /api/migrate/structure/queries.
get_structure_migration_queries ==
    /\ Reads("structure", "get_structure_migration_queries")
    /\ UNCHANGED status

\* GET /api/validate/status.
get_validation_status ==
    /\ Reads("validation", "get_validation_status")
    /\ UNCHANGED status

\* A report handler that hands the results over and clears them.
get_validation_report_Clears ==
    /\ Reads("validation", "get_validation_report")
    /\ status' = [status EXCEPT !.results = None]

\* GET /api/validate/report.
get_validation_report ==
    /\ Reads("validation", "get_validation_report")
    /\ UNCHANGED status

\* What a step of task t leaves alone besides status, tasks, loop, faults
\* and durable.
Fixed == UNCHANGED <<stage, api_key, target_type, probe>> /\ UNCHANGED seq_vars

\* The first statement of each task: the global is bound to a fresh record.
ResetStatus(t, stg) ==
    /\ stage = stg
    /\ tasks[t].pc = "queued"
    /\ Ready(t)
    /\ status' = StatusAtReset
    /\ loop' = t
    /\ UNCHANGED <<faults, durable>>
    /\ Fixed

\* A step of task t inside a stretch of synchronous code: it ends with the
\* phase and the percent given, and either goes on to pc or raises exc.
Phase(phase, percent) ==
    [status EXCEPT !.phase = Some(phase), !.percent = percent]

Goes(t, pc) == [tasks[t] EXCEPT !.pc = pc, !.waiting = FALSE]

Raises(t, exc) ==
    [tasks[t] EXCEPT !.pc = "except", !.waiting = FALSE, !.exc = Some(exc)]

\* ---- run_structure_migration_task
StructureReset(t) ==
    /\ ResetStatus(t, "structure")
    /\ tasks' = [tasks EXCEPT ![t] = Goes(t, "load")]

\* Phase 1: the extraction bundle is read, or it is missing.
LoadExtractionResults(t) ==
    /\ stage = "structure" /\ tasks[t].pc = "load" /\ Ready(t)
    /\ status' = Phase("Loading extraction results", 10)
    /\ \/ /\ tasks' = [tasks EXCEPT ![t] = Goes(t, "session")]
          /\ UNCHANGED faults
       \/ /\ MayFail
          /\ faults' = faults + 1
          /\ tasks' = [tasks EXCEPT ![t] =
                          Raises(t, <<"Extraction bundle not found">>)]
    /\ UNCHANGED <<loop, durable>>
    /\ Fixed

\* Phase 2: the session and the two connection records are found, or not.
GetSessionInfo(t) ==
    /\ stage = "structure" /\ tasks[t].pc = "session" /\ Ready(t)
    /\ status' = Phase("Getting session information", 20)
    /\ \/ /\ tasks' = [tasks EXCEPT ![t] = Goes(t, "translate")]
          /\ UNCHANGED faults
       \/ /\ MayFail
          /\ faults' = faults + 1
          /\ tasks' = [tasks EXCEPT ![t] =
                          Raises(t, <<"Source or target database not selected">>)]
    /\ UNCHANGED <<loop, durable>>
    /\ Fixed

\* "not translated_ddl or (isinstance(translated_ddl, str) and not
\* translated_ddl.strip())".
NothingGenerated(translated_ddl) ==
    \/ ~Truthy(translated_ddl)
    \/ translated_ddl.shape = "str" /\ Strip(translated_ddl.text) = <<>>

\* Phase 3: translate_schema is called and its result stored; reply is what
\* the chat completion call did, which is not asked without an API key.  A
\* result that is no dict has no get: AttributeError.
TranslateSchema(t) ==
    /\ stage = "structure" /\ tasks[t].pc = "translate" /\ Ready(t)
    /\ \E reply \in (IF api_key THEN OracleReplies ELSE {tasks[t].reply}) :
          LET result == translate_schema(api_key, reply)
              at40 == Phase("Translating schema to target dialect", 40)
          IN  IF result.type # "dict"
              THEN /\ status' = at40
                   /\ tasks' = [tasks EXCEPT ![t] =
                         [Raises(t, <<"object has no attribute 'get'">>)
                             EXCEPT !.reply = reply]]
              ELSE /\ status' = [at40 EXCEPT
                                    !.original = Some(result.translated_ddl),
                                    !.notes = Some(result.notes)]
                   /\ tasks' = [tasks EXCEPT ![t] =
                         [(IF NothingGenerated(result.translated_ddl)
                           THEN Raises(t, <<"AI failed to generate DDL queries">>)
                           ELSE Goes(t, "validate")) EXCEPT !.reply = reply]]
    /\ UNCHANGED <<loop, faults, durable>>
    /\ Fixed

\* Phase 4: "await asyncio.sleep(1)" gives the event loop away.
ValidateSyntax(t) ==
    /\ stage = "structure" /\ tasks[t].pc = "validate" /\ Ready(t)
    /\ status' = Phase("Validating DDL syntax", 60)
    /\ tasks' = [tasks EXCEPT ![t].pc = "connect", ![t].waiting = TRUE]
    /\ loop' = 0
    /\ UNCHANGED <<faults, durable>>
    /\ Fixed

\* Phase 5: the credentials are there and connect_to_database connects, or
\* one of the two fails.
ConnectTarget(t) ==
    /\ stage = "structure" /\ tasks[t].pc = "connect" /\ Ready(t)
    /\ status' = Phase("Connecting to target database", 70)
    /\ loop' = t
    /\ \/ /\ target_type \in SupportedTypes
          /\ tasks' = [tasks EXCEPT ![t] =
                [Goes(t, "drop_existing") EXCEPT
                    !.conn = connect_to_database(target_type)]]
          /\ UNCHANGED faults
       \/ /\ target_type \notin SupportedTypes
          /\ tasks' = [tasks EXCEPT ![t] =
                Raises(t, <<"Failed to connect to target database: ",
                            "is not yet supported for migration">>)]
          /\ UNCHANGED faults
       \/ /\ MayFail
          /\ faults' = faults + 1
          /\ \E exc \in {<<"Target database credentials missing">>,
                         <<"Failed to connect to target database: ",
                           "connection refused">>} :
                tasks' = [tasks EXCEPT ![t] = Raises(t, exc)]
    /\ UNCHANGED durable
    /\ Fixed

\* An entry of the log of what a run sent to the target: the statement and
\* the error the target gave, None when it accepted it.
Sent(kind, i, stmt, error) ==
    [kind |-> kind, i |-> i, stmt |-> stmt, error |-> error]

\* The name under which the target keeps the effect of a statement of run t.
Effect(t, kind, i) == [run |-> t, kind |-> kind, i |-> i]

\* Phase 5.5: the five tables of the demo schema are dropped, children
\* first, and the drops committed; a failure is printed and the run goes on.
TablesToDrop == <<"order_items", "orders", "products", "employees", "customers">>

CleanupStatement(j) ==
    <<"DROP TABLE IF EXISTS", " ", TablesToDrop[j], " ", "CASCADE">>

DropExistingTables(t) ==
    /\ stage = "structure" /\ tasks[t].pc = "drop_existing" /\ Ready(t)
    /\ status' = Phase("Dropping existing tables", 75)
    /\ \E n \in 0..Len(TablesToDrop) :
          LET all == n = Len(TablesToDrop)
              effects == {Effect(t, "cleanup", j) : j \in 1..n}
              log == [j \in 1..(IF all THEN n ELSE n + 1) |->
                         Sent("cleanup", j, CleanupStatement(j),
                              IF j <= n THEN None ELSE Some(<<"SYNTAX ERROR">>))]
              conn == tasks[t].conn
          IN  /\ all \/ MayFail
              /\ faults' = IF all THEN faults ELSE faults + 1
              /\ durable' = IF conn.autocommit \/ all
                            THEN durable \cup conn.pending \cup effects
                            ELSE durable
              /\ tasks' = [tasks EXCEPT ![t] =
                    [Goes(t, "apply") EXCEPT
                        !.sent = @ \o log,
                        !.conn = IF conn.autocommit \/ all THEN Commit(conn)
                                 ELSE [conn EXCEPT !.pending = @ \cup effects]]]
    /\ UNCHANGED loop
    /\ Fixed

ApplyFailed == "Failed to apply DDL to target database: "

\* Phase 6 up to the first statement: the stored translation is read back
\* from the global and apply_ddl_to_target extracts its statements.  No
\* string of the model starts with '{', so none is parsed as JSON here.
BeginApply(t) ==
    /\ stage = "structure" /\ tasks[t].pc = "apply" /\ Ready(t)
    /\ status' = Phase("Creating tables in target", 80)
    /\ tasks' = [tasks EXCEPT ![t] =
          IF status.original = None
          THEN Raises(t, <<"'translated_queries_original'">>)
          ELSE LET data == status.original[1]
               IN  IF ~Truthy(data) THEN Goes(t, "finalize")
                   ELSE IF data.shape = "str" /\ Strip(data.text) = <<>>
                   THEN Raises(t, <<"AI returned empty DDL queries">>)
                   ELSE IF StatementsToApply(data) = <<>>
                   THEN [Goes(t, "rollback") EXCEPT
                            !.exc = Some(<<"No DDL statements found to execute">>)]
                   ELSE [Goes(t, "execute") EXCEPT
                            !.ddl_statements = StatementsToApply(data),
                            !.i = 1, !.executed_count = 0]]
    /\ UNCHANGED <<loop, faults, durable>>
    /\ Fixed

\* One iteration of the loop over the statements: a blank statement is
\* skipped; the target accepts the statement, or rejects it.  A rejection
\* that tells of an existing object leads to the drop when the statement
\* names a table and is passed over when it does not; any other rejection
\* is raised again.
ExecuteStatement(t) ==
    /\ stage = "structure" /\ tasks[t].pc = "execute" /\ Ready(t)
    /\ tasks[t].i <= Len(tasks[t].ddl_statements)
    /\ LET me == tasks[t]
           cleaned == CleanedStatement(me.ddl_statements[me.i])
       IN  IF IsBlankStatement(me.ddl_statements[me.i])
           THEN /\ tasks' = [tasks EXCEPT ![t].i = @ + 1]
                /\ UNCHANGED <<faults, durable>>
           ELSE \/ /\ tasks' = [tasks EXCEPT
                         ![t].sent = Append(@, Sent("ddl", me.i, cleaned, None)),
                         ![t].conn = ExecuteOk(@, Effect(t, "ddl", me.i)),
                         ![t].executed_count = @ + 1,
                         ![t].i = @ + 1]
                   /\ durable' = DurableAfterExecute(me.conn,
                                      Effect(t, "ddl", me.i), durable)
                   /\ UNCHANGED faults
                \/ /\ MayFail
                   /\ faults' = faults + 1
                   /\ UNCHANGED durable
                   /\ \E message \in ErrorMessages :
                         LET logged == [me EXCEPT !.sent = Append(@,
                                 Sent("ddl", me.i, cleaned, Some(message)))]
                         IN  tasks' = [tasks EXCEPT ![t] =
                                 IF IndicatesExisting(message)
                                 THEN IF TableMatch(cleaned) # 0
                                      THEN [logged EXCEPT !.pc = "drop",
                                               !.stmt_error = Some(message)]
                                      ELSE [logged EXCEPT !.i = @ + 1]
                                 ELSE [logged EXCEPT !.pc = "rollback",
                                          !.exc = Some(message)]]
    /\ UNCHANGED <<status, loop>>
    /\ Fixed

\* The DROP TABLE IF EXISTS "name" CASCADE sent for a table that exists.  A
\* failure of the drop raises the error of the statement again.
DropExistingTable(t) ==
    /\ stage = "structure" /\ tasks[t].pc = "drop" /\ Ready(t)
    /\ LET me == tasks[t]
           cleaned == CleanedStatement(me.ddl_statements[me.i])
           drop == DropStatement(cleaned[TableMatch(cleaned)])
       IN  \/ /\ tasks' = [tasks EXCEPT
                    ![t].sent = Append(@, Sent("drop", me.i, drop, None)),
                    ![t].conn = ExecuteOk(@, Effect(t, "drop", me.i)),
                    ![t].pc = "retry"]
              /\ durable' = DurableAfterExecute(me.conn,
                                 Effect(t, "drop", me.i), durable)
              /\ UNCHANGED faults
           \/ /\ MayFail
              /\ faults' = faults + 1
              /\ UNCHANGED durable
              /\ tasks' = [tasks EXCEPT
                    ![t].sent = Append(@, Sent("drop", me.i, drop,
                                               Some(<<"SYNTAX ERROR">>))),
                    ![t].pc = "rollback",
                    ![t].exc = me.stmt_error]
    /\ UNCHANGED <<status, loop>>
    /\ Fixed

\* The statement sent again after the drop.  A failure of the retry raises
\* the error of the first attempt again.
RetryStatement(t) ==
    /\ stage = "structure" /\ tasks[t].pc = "retry" /\ Ready(t)
    /\ LET me == tasks[t]
           cleaned == CleanedStatement(me.ddl_statements[me.i])
       IN  \/ /\ tasks' = [tasks EXCEPT
                    ![t].sent = Append(@, Sent("retry", me.i, cleaned, None)),
                    ![t].conn = ExecuteOk(@, Effect(t, "ddl", me.i)),
                    ![t].executed_count = @ + 1,
                    ![t].i = @ + 1,
                    ![t].stmt_error = None,
                    ![t].pc = "execute"]
              /\ durable' = DurableAfterExecute(me.conn,
                                 Effect(t, "ddl", me.i), durable)
              /\ UNCHANGED faults
           \/ /\ MayFail
              /\ faults' = faults + 1
              /\ UNCHANGED durable
              /\ tasks' = [tasks EXCEPT
                    ![t].sent = Append(@, Sent("retry", me.i, cleaned,
                                     Some(<<"relation", " ", "already exists">>))),
                    ![t].pc = "rollback",
                    ![t].exc = me.stmt_error]
    /\ UNCHANGED <<status, loop>>
    /\ Fixed

\* target_connection.commit() after the last statement.
CommitDdl(t) ==
    /\ stage = "structure" /\ tasks[t].pc = "execute" /\ Ready(t)
    /\ tasks[t].i > Len(tasks[t].ddl_statements)
    /\ \/ /\ tasks' = [tasks EXCEPT ![t].conn = Commit(@), ![t].pc = "finalize",
                                    ![t].sent = Append(@, Sent("commit", 0, <<>>, None))]
          /\ durable' = DurableAfterCommit(tasks[t].conn, durable)
          /\ UNCHANGED faults
       \/ /\ MayFail
          /\ faults' = faults + 1
          /\ UNCHANGED durable
          /\ tasks' = [tasks EXCEPT ![t].pc = "rollback",
                          ![t].exc = Some(<<"connection lost">>),
                          ![t].sent = Append(@, Sent("commit", 0, <<>>,
                                                      Some(<<"connection lost">>)))]
    /\ UNCHANGED <<status, loop>>
    /\ Fixed

\* The except and finally clauses of apply_ddl_to_target and the except
\* clause around its call: rollback, and the error wrapped twice.
RollbackDdl(t) ==
    /\ stage = "structure" /\ tasks[t].pc = "rollback" /\ Ready(t)
    /\ tasks' = [tasks EXCEPT
          ![t].conn = Rollback(@),
          ![t].sent = Append(@, Sent("rollback", 0, <<>>, None)),
          ![t].exc = Some(<<ApplyFailed, ApplyFailed>> \o tasks[t].exc[1]),
          ![t].pc = "except"]
    /\ UNCHANGED <<status, loop, faults, durable>>
    /\ Fixed

\* Phase 7 and "done".
FinalizeStructure(t) ==
    /\ stage = "structure" /\ tasks[t].pc = "finalize" /\ Ready(t)
    /\ status' = [Phase("Finalizing structure migration", 100) EXCEPT !.done = TRUE]
    /\ tasks' = [tasks EXCEPT ![t].pc = "finally"]
    /\ UNCHANGED <<loop, faults, durable>>
    /\ Fixed

\* An except clause that ends the run without recording the error.
StructureFailed_Silent(t) ==
    /\ stage = "structure" /\ tasks[t].pc = "except" /\ Ready(t)
    /\ status' = [status EXCEPT !.done = TRUE]
    /\ tasks' = [tasks EXCEPT ![t].pc = "finally"]
    /\ UNCHANGED <<loop, faults, durable>>
    /\ Fixed

\* The except clause of the task.
StructureFailed(t) ==
    /\ stage = "structure" /\ tasks[t].pc = "except" /\ Ready(t)
    /\ status' = [status EXCEPT !.error = tasks[t].exc, !.done = TRUE]
    /\ tasks' = [tasks EXCEPT ![t].pc = "finally"]
    /\ UNCHANGED <<loop, faults, durable>>
    /\ Fixed

\* The finally clause of the task: the target connection is closed when
\* there is one.
CloseTarget(t) ==
    /\ stage = "structure" /\ tasks[t].pc = "finally" /\ Ready(t)
    /\ tasks' = [tasks EXCEPT
          ![t].conn = IF @.made THEN Close(@) ELSE @,
          ![t].pc = "end"]
    /\ loop' = 0
    /\ UNCHANGED <<status, faults, durable>>
    /\ Fixed

\* ---- run_extraction_task
ExtractionReset(t) ==
    /\ ResetStatus(t, "extraction")
    /\ tasks' = [tasks EXCEPT ![t] = Goes(t, "session")]

\* The engines a source connection record may name: the MySQL engine,
\* whose extractor is modelled, and an engine extract_database_ddl has no
\* extractor for.
SourceTypes == {"MySQL", "Oracle"}

\* The session names a source and its connection record is found, or not.
ExtractionSession(t) ==
    /\ stage = "extraction" /\ tasks[t].pc = "session" /\ Ready(t)
    /\ \/ /\ \E db_type \in SourceTypes :
                tasks' = [tasks EXCEPT ![t] =
                   [Goes(t, "phases") EXCEPT !.k = 1, !.db_type = db_type]]
          /\ UNCHANGED faults
       \/ /\ MayFail
          /\ faults' = faults + 1
          /\ tasks' = [tasks EXCEPT ![t] =
                          Raises(t, <<"No source database selected">>)]
    /\ UNCHANGED <<status, loop, durable>>
    /\ Fixed

\* phases[:-1], each followed by "await asyncio.sleep(0.5)".
ExtractionPhases ==
    << [phase |-> "Loading analysis results", percent |-> 10],
       [phase |-> "Generating DDL scripts", percent |-> 30],
       [phase |-> "Extracting constraints", percent |-> 50],
       [phase |-> "Building dependency graph", percent |-> 70],
       [phase |-> "Preparing type mappings", percent |-> 85] >>

ExtractionPhase(t) ==
    /\ stage = "extraction" /\ tasks[t].pc = "phases" /\ Ready(t)
    /\ tasks[t].k <= Len(ExtractionPhases)
    /\ status' = Phase(ExtractionPhases[tasks[t].k].phase,
                       ExtractionPhases[tasks[t].k].percent)
    /\ tasks' = [tasks EXCEPT ![t].k = @ + 1, ![t].waiting = TRUE]
    /\ loop' = 0
    /\ UNCHANGED <<faults, durable>>
    /\ Fixed

\* The catalog queries of extract_mysql_ddl in the order it sends them, each
\* with the object it reads and whether a try/except around it passes over
\* its failure.
CatalogQuery(object, swallowed) == [object |-> object, swallowed |-> swallowed]

CatalogQueries ==
    << CatalogQuery("table list", FALSE),
       CatalogQuery("create table", TRUE),
       CatalogQuery("view list", FALSE),
       CatalogQuery("create view", TRUE),
       CatalogQuery("procedures", FALSE),
       CatalogQuery("functions", FALSE),
       CatalogQuery("triggers", FALSE),
       CatalogQuery("primary keys", FALSE),
       CatalogQuery("foreign keys", FALSE),
       CatalogQuery("check constraints", FALSE),
       CatalogQuery("unique constraints", FALSE),
       CatalogQuery("indexes", FALSE),
       CatalogQuery("sequences", FALSE),
       CatalogQuery("partitions", TRUE),
       CatalogQuery("events", TRUE),
       CatalogQuery("data profile", TRUE),
       CatalogQuery("computed columns", TRUE),
       CatalogQuery("advanced constraints", FALSE),
       CatalogQuery("security policies", TRUE),
       CatalogQuery("data samples", TRUE),
       CatalogQuery("users", TRUE),
       CatalogQuery("grants", TRUE),
       CatalogQuery("table statistics", TRUE),
       CatalogQuery("index statistics", TRUE) >>

ExtractionFailedPrefix == "MySQL DDL extraction failed: "

\* mysql.connector.connect(**connection_params) of extract_mysql_ddl.
SourceConnection ==
    [made |-> TRUE, open |-> TRUE, autocommit |-> FALSE, pending |-> {}]

\* An extract_database_ddl that sends every engine to the MySQL extractor.
ExtractDdl_AnyEngine(t) ==
    /\ stage = "extraction" /\ tasks[t].pc = "phases" /\ Ready(t)
    /\ tasks[t].k > Len(ExtractionPhases)
    /\ status' = Phase("Generating DDL scripts", 60)
    /\ loop' = t
    /\ \/ /\ tasks' = [tasks EXCEPT ![t] =
                [Goes(t, "catalog") EXCEPT !.source_conn = SourceConnection,
                                           !.i = 1, !.results = <<>>]]
          /\ UNCHANGED faults
       \/ /\ MayFail
          /\ faults' = faults + 1
          /\ tasks' = [tasks EXCEPT ![t] =
                Raises(t, <<ExtractionFailedPrefix, "connection refused">>)]
    /\ UNCHANGED durable
    /\ Fixed

\* "Perform actual DDL extraction": extract_database_ddl is called.  For
\* MySQL extract_mysql_ddl connects to the source, or fails to; for an
\* engine without an extractor the bundle of empty lists and zero counts
\* is returned at once.
ExtractDdl(t) ==
    /\ stage = "extraction" /\ tasks[t].pc = "phases" /\ Ready(t)
    /\ tasks[t].k > Len(ExtractionPhases)
    /\ status' = Phase("Generating DDL scripts", 60)
    /\ loop' = t
    /\ \/ /\ tasks[t].db_type \in SupportedTypes
          /\ tasks' = [tasks EXCEPT ![t] =
                [Goes(t, "catalog") EXCEPT !.source_conn = SourceConnection,
                                           !.i = 1, !.results = <<>>]]
          /\ UNCHANGED faults
       \/ /\ tasks[t].db_type \in SupportedTypes
          /\ MayFail
          /\ faults' = faults + 1
          /\ tasks' = [tasks EXCEPT ![t] =
                Raises(t, <<ExtractionFailedPrefix, "connection refused">>)]
       \/ /\ tasks[t].db_type \notin SupportedTypes
          /\ tasks' = [tasks EXCEPT ![t] =
                [Goes(t, "save") EXCEPT !.i = 0, !.results = <<>>]]
          /\ UNCHANGED faults
    /\ UNCHANGED durable
    /\ Fixed

\* One catalog query: its rows go to the bundle, or it fails; a failure
\* inside a try/except omits the object, any other failure leaves
\* extract_mysql_ddl through its outer except clause, which wraps the
\* error and raises it.
RunCatalogQuery(t) ==
    /\ stage = "extraction" /\ tasks[t].pc = "catalog" /\ Ready(t)
    /\ tasks[t].i <= Len(CatalogQueries)
    /\ LET query == CatalogQueries[tasks[t].i]
       IN  \/ /\ tasks' = [tasks EXCEPT ![t].results = Append(@, query.object),
                                        ![t].i = @ + 1]
              /\ UNCHANGED faults
           \/ /\ MayFail
              /\ faults' = faults + 1
              /\ tasks' = [tasks EXCEPT ![t] =
                    IF query.swallowed
                    THEN [tasks[t] EXCEPT !.i = @ + 1]
                    ELSE Raises(t, <<ExtractionFailedPrefix, query.object>>)]
    /\ UNCHANGED <<status, loop, durable>>
    /\ Fixed

\* connection.close() after the last query, and the bundle returned.
CloseSource(t) ==
    /\ stage = "extraction" /\ tasks[t].pc = "catalog" /\ Ready(t)
    /\ tasks[t].i > Len(CatalogQueries)
    /\ tasks' = [tasks EXCEPT ![t].source_conn = Close(@), ![t].pc = "save"]
    /\ UNCHANGED <<status, loop, faults, durable>>
    /\ Fixed

\* The bundle as the artifacts directory keeps it: the sum of the counts of
\* its extraction report, and whether it carries the "error" note of an
\* engine that is not supported.
Bundle(t) ==
    Effect(t, IF tasks[t].db_type \in SupportedTypes
              THEN "bundle" ELSE "unsupported bundle",
           Len(tasks[t].results))

\* results_summary: objects_extracted is the sum of the counts of the
\* extraction report.
ResultsSummary(results) == <<"objects_extracted", Len(results)>>

\* The final phase: the bundle is written to the artifacts directory.
FinalizeExtraction(t) ==
    /\ stage = "extraction" /\ tasks[t].pc = "save" /\ Ready(t)
    /\ \/ /\ status' = [Phase("Finalizing extraction", 100) EXCEPT
                           !.done = TRUE,
                           !.results = Some(ResultsSummary(tasks[t].results))]
          /\ tasks' = [tasks EXCEPT ![t].pc = "end"]
          /\ durable' = durable \cup {Bundle(t)}
          /\ loop' = 0
          /\ UNCHANGED faults
       \/ /\ MayFail
          /\ faults' = faults + 1
          /\ status' = Phase("Finalizing extraction", 100)
          /\ tasks' = [tasks EXCEPT ![t] = Raises(t, <<"No space left on device">>)]
          /\ UNCHANGED <<loop, durable>>
    /\ Fixed

\* An except clause that records the error and leaves done as it is.
ExtractionFailed_Silent(t) ==
    /\ stage = "extraction" /\ tasks[t].pc = "except" /\ Ready(t)
    /\ status' = [status EXCEPT !.error = tasks[t].exc, !.percent = 100]
    /\ tasks' = [tasks EXCEPT ![t].pc = "end"]
    /\ loop' = 0
    /\ UNCHANGED <<faults, durable>>
    /\ Fixed

ExtractionFailed(t) ==
    /\ stage = "extraction" /\ tasks[t].pc = "except" /\ Ready(t)
    /\ status' = [status EXCEPT !.error = tasks[t].exc, !.done = TRUE,
                                !.percent = 100]
    /\ tasks' = [tasks EXCEPT ![t].pc = "end"]
    /\ loop' = 0
    /\ UNCHANGED <<faults, durable>>
    /\ Fixed

\* ---- run_data_migration_task
DataReset(t) ==
    /\ ResetStatus(t, "data")
    /\ tasks' = [tasks EXCEPT ![t] = Goes(t, "prepare")]

\* Phase 1: the session names a source and a target, or not.
PrepareTransfer(t) ==
    /\ stage = "data" /\ tasks[t].pc = "prepare" /\ Ready(t)
    /\ status' = Phase("Preparing data transfer", 10)
    /\ \/ /\ tasks' = [tasks EXCEPT ![t] = Goes(t, "connect")]
          /\ UNCHANGED faults
       \/ /\ MayFail
          /\ faults' = faults + 1
          /\ tasks' = [tasks EXCEPT ![t] =
                          Raises(t, <<"Source or target database not selected">>)]
    /\ UNCHANGED <<loop, durable>>
    /\ Fixed

\* Phase 2: the source is connected first, then the target.
ConnectDatabases(t) ==
    /\ stage = "data" /\ tasks[t].pc = "connect" /\ Ready(t)
    /\ status' = Phase("Connecting to databases", 20)
    /\ \/ /\ target_type \in SupportedTypes
          /\ tasks' = [tasks EXCEPT ![t] =
                [Goes(t, "prepare_target") EXCEPT
                    !.source_conn = connect_to_database("PostgreSQL"),
                    !.conn = connect_to_database(target_type)]]
          /\ UNCHANGED faults
       \/ /\ target_type \notin SupportedTypes
          /\ tasks' = [tasks EXCEPT ![t] =
                [Raises(t, <<"is not yet supported for migration">>) EXCEPT
                    !.source_conn = connect_to_database("PostgreSQL")]]
          /\ UNCHANGED faults
       \/ /\ MayFail
          /\ faults' = faults + 1
          /\ \E source_ok \in BOOLEAN :
                tasks' = [tasks EXCEPT ![t] =
                   [Raises(t, <<"connection refused">>) EXCEPT
                       !.source_conn = IF source_ok
                                       THEN connect_to_database("PostgreSQL")
                                       ELSE @]]
    /\ UNCHANGED <<loop, durable>>
    /\ Fixed

\* Phase 3: the five tables are dropped and created again in the target,
\* with a commit after the drops and one after the creations; a statement
\* that fails is passed over.
PrepareTarget(t) ==
    /\ stage = "data" /\ tasks[t].pc = "prepare_target" /\ Ready(t)
    /\ status' = Phase("Preparing target database", 30)
    /\ tasks' = [tasks EXCEPT ![t] = [Goes(t, "migrate") EXCEPT !.k = 0]]
    /\ durable' = durable \cup {Effect(t, "prepare", 0)}
    /\ UNCHANGED <<loop, faults>>
    /\ Fixed

\* Phase 4 before the first table.
BeginMigrate(t) ==
    /\ stage = "data" /\ tasks[t].pc = "migrate" /\ Ready(t)
    /\ tasks[t].k = 0
    /\ status' = Phase("Migrating data", 40)
    /\ tasks' = [tasks EXCEPT ![t].k = 1]
    /\ UNCHANGED <<loop, faults, durable>>
    /\ Fixed

\* The tables copied, parents first.
TablesToMigrate == <<"customers", "employees", "products", "orders", "order_items">>

\* The progress computed from the index of the table in the list.
MigrateProgress_FromIndex(k) ==
    LET progress == 40 + ((k - 1) * 50) \div Len(TablesToMigrate)
    IN  IF progress < 90 THEN progress ELSE 90

\* min(40 + int((i + 1) / len(tables_to_migrate) * 50), 90) for i = k - 1.
MigrateProgress(k) ==
    LET progress == 40 + (k * 50) \div Len(TablesToMigrate)
    IN  IF progress < 90 THEN progress ELSE 90

\* The statements of one table's copy, in order: the count and the rows are
\* read from the source, the rows are inserted into the target and the
\* insert is committed.
CopySteps == <<"SELECT COUNT(*)", "SELECT *", "INSERT", "commit">>

\* The message of the exception a statement of the copy raises.
CopyError(step) == <<step, " ", "failed">>

\* What the target keeps of table k when the copy stops at a step: an
\* autocommit connection has kept the rows once the insert has returned.
DurableAfterCopy(conn, step, id, kept) ==
    IF conn.autocommit /\ step = "commit" THEN kept \cup {id} ELSE kept

\* One table: its rows are read, inserted and committed, or a statement
\* raises and the loop is left for the except clause of the task.
MigrateTable(t) ==
    /\ stage = "data" /\ tasks[t].pc = "migrate" /\ Ready(t)
    /\ tasks[t].k \in 1..Len(TablesToMigrate)
    /\ LET k == tasks[t].k
           table == TablesToMigrate[k]
       IN  \/ /\ status' = Phase(table, MigrateProgress(k))
              /\ durable' = durable \cup {Effect(t, "rows", k)}
              /\ tasks' = [tasks EXCEPT
                    ![t].k = @ + 1,
                    ![t].sent = Append(@, Sent("copy", k, <<table>>, None)),
                    ![t].pc = IF k = Len(TablesToMigrate)
                              THEN "validate" ELSE "migrate"]
              /\ UNCHANGED faults
           \/ /\ MayFail
              /\ faults' = faults + 1
              /\ \E s \in DOMAIN CopySteps :
                    /\ status' = IF s = 1 THEN status
                                 ELSE [status EXCEPT !.phase = Some(table)]
                    /\ durable' = DurableAfterCopy(tasks[t].conn, CopySteps[s],
                                                   Effect(t, "rows", k), durable)
                    /\ tasks' = [tasks EXCEPT ![t] =
                          [Raises(t, CopyError(CopySteps[s])) EXCEPT
                              !.sent = Append(@, Sent("copy", k, <<table>>,
                                               Some(CopyError(CopySteps[s]))))]]
    /\ UNCHANGED loop
    /\ Fixed

\* Phase 5: "await asyncio.sleep(1)".
ValidateIntegrity(t) ==
    /\ stage = "data" /\ tasks[t].pc = "validate" /\ Ready(t)
    /\ status' = Phase("Validating data integrity", 95)
    /\ tasks' = [tasks EXCEPT ![t].pc = "finalize", ![t].waiting = TRUE]
    /\ loop' = 0
    /\ UNCHANGED <<faults, durable>>
    /\ Fixed

\* Phase 6, "done", and the two connections closed.
FinalizeData(t) ==
    /\ stage = "data" /\ tasks[t].pc = "finalize" /\ Ready(t)
    /\ status' = [Phase("Finalizing data migration", 100) EXCEPT !.done = TRUE]
    /\ tasks' = [tasks EXCEPT ![t].pc = "end", ![t].waiting = FALSE,
                    ![t].source_conn = Close(@), ![t].conn = Close(@)]
    /\ loop' = 0
    /\ UNCHANGED <<faults, durable>>
    /\ Fixed

\* An except clause that records the error and goes on with the next table.
DataFailed_Resumes(t) ==
    /\ stage = "data" /\ tasks[t].pc = "except" /\ Ready(t)
    /\ status' = [status EXCEPT !.error = tasks[t].exc]
    /\ tasks' = [tasks EXCEPT ![t].pc = IF tasks[t].k \in 1..(Len(TablesToMigrate) - 1)
                                        THEN "migrate" ELSE "validate",
                              ![t].k = @ + 1]
    /\ UNCHANGED <<loop, faults, durable>>
    /\ Fixed

\* The except clause of the task.
DataFailed(t) ==
    /\ stage = "data" /\ tasks[t].pc = "except" /\ Ready(t)
    /\ status' = [status EXCEPT !.error = tasks[t].exc, !.done = TRUE]
    /\ tasks' = [tasks EXCEPT ![t].pc = "end"]
    /\ loop' = 0
    /\ UNCHANGED <<faults, durable>>
    /\ Fixed

\* ---- run_validation_task
Finding(category, verdict) == [category |-> category, status |-> verdict]

\* validate_connections: the source is tested first and a source that fails
\* ends the check; the target is tested next.
validate_connections(source_ok, target_ok) ==
    IF ~source_ok THEN <<Finding("Source Connection", "Fail")>>
    ELSE <<Finding("Source Connection", "Pass"),
           Finding("Target Connection", IF target_ok THEN "Pass" ELSE "Fail")>>

\* A run that never stops after the connection findings.
ConnectionFailed_Never(connection_results) == FALSE

\* any(result["status"] == "Fail" for result in connection_results).
ConnectionFailed(connection_results) ==
    \E r \in DOMAIN connection_results : connection_results[r].status = "Fail"

\* Phases 2 to 8 of run_comprehensive_validation: the percent each shows and
\* the category of what it reports.
ValidationPhases ==
    << [phase |-> "Validating row counts", percent |-> 15,
        category |-> "Row Count"],
       [phase |-> "Validating table structures", percent |-> 30,
        category |-> "Table Structure"],
       [phase |-> "Comparing sample data", percent |-> 40,
        category |-> "Data Sampling"],
       [phase |-> "Analyzing content differences", percent |-> 50,
        category |-> "Content Analysis"],
       [phase |-> "Running automated tests", percent |-> 70,
        category |-> "Automated Test"],
       [phase |-> "Performance benchmarking", percent |-> 85,
        category |-> "Performance Benchmark"],
       [phase |-> "Creating rollback checkpoint", percent |-> 95,
        category |-> "Rollback Checkpoint"] >>

ValidationReset(t) ==
    /\ ResetStatus(t, "validation")
    /\ tasks' = [tasks EXCEPT ![t] = Goes(t, "session")]

\* The session and the connection records are found; when they are not, the
\* exception becomes a finding of the validation process.
ValidationSession(t) ==
    /\ stage = "validation" /\ tasks[t].pc = "session" /\ Ready(t)
    /\ \/ /\ tasks' = [tasks EXCEPT ![t] = Goes(t, "connections")]
          /\ UNCHANGED faults
       \/ /\ MayFail
          /\ faults' = faults + 1
          /\ tasks' = [tasks EXCEPT ![t] =
                [Goes(t, "save") EXCEPT
                    !.results = <<Finding("Validation Process", "Fail")>>]]
    /\ UNCHANGED <<status, loop, durable>>
    /\ Fixed

\* Phase 1: the connection findings; a Fail among them ends the run.
ValidateConnections(t) ==
    /\ stage = "validation" /\ tasks[t].pc = "connections" /\ Ready(t)
    /\ status' = Phase("Validating database connections", 5)
    /\ \E source_ok \in BOOLEAN, target_ok \in BOOLEAN :
          LET connection_results == validate_connections(source_ok, target_ok)
          IN  /\ (source_ok /\ target_ok) \/ MayFail
              /\ source_ok \/ target_ok
              /\ faults' = IF source_ok /\ target_ok THEN faults ELSE faults + 1
              /\ tasks' = [tasks EXCEPT ![t] =
                    [Goes(t, IF ConnectionFailed(connection_results)
                             THEN "save" ELSE "checks") EXCEPT
                        !.results = @ \o connection_results, !.k = 1]]
    /\ UNCHANGED <<loop, durable>>
    /\ Fixed

\* Phases 2 to 8: each check catches its own exceptions and reports.
ValidationPhase(t) ==
    /\ stage = "validation" /\ tasks[t].pc = "checks" /\ Ready(t)
    /\ tasks[t].k <= Len(ValidationPhases)
    /\ status' = Phase(ValidationPhases[tasks[t].k].phase,
                       ValidationPhases[tasks[t].k].percent)
    /\ \E verdict \in {"Pass", "Warning", "Fail"} :
          /\ verdict = "Pass" \/ MayFail
          /\ faults' = IF verdict = "Pass" THEN faults ELSE faults + 1
          /\ tasks' = [tasks EXCEPT
                ![t].results = Append(@,
                    Finding(ValidationPhases[tasks[t].k].category, verdict)),
                ![t].k = @ + 1]
    /\ UNCHANGED <<loop, durable>>
    /\ Fixed

\* Phase 9.
GenerateReport(t) ==
    /\ stage = "validation" /\ tasks[t].pc = "checks" /\ Ready(t)
    /\ tasks[t].k > Len(ValidationPhases)
    /\ status' = Phase("Generating validation report", 100)
    /\ tasks' = [tasks EXCEPT ![t].pc = "save"]
    /\ UNCHANGED <<loop, faults, durable>>
    /\ Fixed

\* The report is written and the status completed; a write that fails is
\* the error of the run.
SaveReport(t) ==
    /\ stage = "validation" /\ tasks[t].pc = "save" /\ Ready(t)
    /\ \/ /\ status' = [status EXCEPT !.done = TRUE,
                                      !.results = Some(tasks[t].results)]
          /\ UNCHANGED faults
       \/ /\ MayFail
          /\ faults' = faults + 1
          /\ status' = [status EXCEPT !.done = TRUE,
                                      !.error = Some(<<"No space left on device">>)]
    /\ tasks' = [tasks EXCEPT ![t].pc = "end"]
    /\ loop' = 0
    /\ UNCHANGED durable
    /\ Fixed

\* ------------------------------------------------- the checks of validate.py
\* EQUIVALENT_TYPES.
EQUIVALENT_TYPES ==
    [t \in {"int", "integer", "varchar", "character varying", "datetime",
            "timestamp without time zone", "tinyint", "smallint", "bigint",
            "decimal", "numeric", "double", "double precision"} |->
        CASE t = "int" -> "integer"
          [] t = "integer" -> "int"
          [] t = "varchar" -> "character varying"
          [] t = "character varying" -> "varchar"
          [] t = "datetime" -> "timestamp without time zone"
          [] t = "timestamp without time zone" -> "datetime"
          [] t = "tinyint" -> "smallint"
          [] t = "smallint" -> "tinyint"
          [] t = "bigint" -> "bigint"
          [] t = "decimal" -> "numeric"
          [] t = "numeric" -> "decimal"
          [] t = "double" -> "double precision"
          [] t = "double precision" -> "double"]

\* type.strip().lower().
NormalType(type) == Lower(Strip(type))

\* type1 in EQUIVALENT_TYPES and EQUIVALENT_TYPES[type1] == type2, on
\* normalised types.
MapsTo(type1, type2) ==
    /\ Len(type1) = 1
    /\ type1[1] \in DOMAIN EQUIVALENT_TYPES
    /\ type2 = <<EQUIVALENT_TYPES[type1[1]]>>

\* The comparison with the second type taken as it is written.
are_equivalent_types_RawSecond(type1, type2) ==
    \/ NormalType(type1) = type2
    \/ MapsTo(NormalType(type1), type2)
    \/ MapsTo(type2, NormalType(type1))

are_equivalent_types(type1, type2) ==
    \/ NormalType(type1) = NormalType(type2)
    \/ MapsTo(NormalType(type1), NormalType(type2))
    \/ MapsTo(NormalType(type2), NormalType(type1))

\* A dict of the model: a function that gives None for the keys the dict
\* does not hold.  dict.keys() and dict.get(key, default).
Keys(dict) == {key \in DOMAIN dict : dict[key] # None}
Get(dict, key, default) == IF dict[key] = None THEN default ELSE dict[key][1]

\* A finding of a check: the category is the check and the table.
TableFinding(check, table, verdict, details, confidence) ==
    [category |-> <<check, table>>, status |-> verdict,
     errorDetails |-> details, confidenceScore |-> confidence]

\* One column of a schema as get_table_schemas reads it.
Column(name, type, nullable) ==
    [name |-> name, type |-> type, nullable |-> nullable]

\* The check of one pair of columns, in the order of the loop body: the
\* name, the nullability, the type.  None when the columns agree.
ColumnMismatch(source_col, target_col) ==
    IF source_col.name # target_col.name
    THEN Some(<<"Column name mismatch: ", source_col.name, target_col.name>>)
    ELSE IF source_col.nullable # target_col.nullable
    THEN Some(<<"Column nullability mismatch: ", source_col.name,
                target_col.name>>)
    ELSE IF ~are_equivalent_types(source_col.type, target_col.type)
    THEN Some(<<"Column type mismatch: ", source_col.name, target_col.name>>)
    ELSE None

\* The loop over the columns: it breaks at the first pair that differs and
\* keeps the details of that pair.
FirstMismatch(source_schema, target_schema) ==
    LET differ == {i \in DOMAIN source_schema :
                      ColumnMismatch(source_schema[i], target_schema[i]) # None}
    IN  IF differ = {} THEN None
        ELSE ColumnMismatch(source_schema[Min(differ)], target_schema[Min(differ)])

\* "type mismatch" in error_details.  Of the texts of the model only the
\* heading of the type message holds these words.
MentionsTypeMismatch(error_details) ==
    error_details[1] = "Column type mismatch: "

\* The body of the loop over all_tables for one table: no finding when
\* neither side has columns, else one finding.
CompareSchemas(table, source_schema, target_schema) ==
    IF source_schema = <<>> /\ target_schema = <<>> THEN <<>>
    ELSE IF Len(source_schema) # Len(target_schema)
    THEN << TableFinding("Table Structure - ", table, "Fail",
               Some(<<"Column count mismatch: ">>), "0.8") >>
    ELSE LET error_details == FirstMismatch(source_schema, target_schema)
         IN  IF error_details = None
             THEN << TableFinding("Table Structure - ", table, "Pass", None, "1.0") >>
             ELSE IF MentionsTypeMismatch(error_details[1])
             THEN << TableFinding("Table Structure - ", table, "Warning",
                        error_details, "0.9") >>
             ELSE << TableFinding("Table Structure - ", table, "Fail",
                        error_details, "0.7") >>

\* The findings of a check for the tables in the order given.
RECURSIVE FindingsInOrder(_, _, _, _)
FindingsInOrder(Compare(_, _, _), order, source, target) ==
    IF order = <<>> THEN <<>>
    ELSE Compare(Head(order), source, target)
         \o FindingsInOrder(Compare, Tail(order), source, target)

\* validate_table_structure once the schemas of both sides are read: the
\* tables of the union, in the order the set gives them.
StructureOfTable(table, source_schemas, target_schemas) ==
    CompareSchemas(table, Get(source_schemas, table, <<>>),
                          Get(target_schemas, table, <<>>))

validate_table_structure(order, source_schemas, target_schemas) ==
    FindingsInOrder(StructureOfTable, order, source_schemas, target_schemas)

\* A comparison that passes over the tables one side does not name.
CompareCounts_SkipMissing(table, source_counts, target_counts) ==
    IF source_counts[table] = None \/ target_counts[table] = None THEN <<>>
    ELSE IF source_counts[table] = target_counts[table]
    THEN << TableFinding("Row Count - ", table, "Pass", None, "1.0") >>
    ELSE << TableFinding("Row Count - ", table, "Fail",
               Some(<<"Row count mismatch: Source=", source_counts[table][1],
                      ", Target=", target_counts[table][1]>>), "0.8") >>

\* The body of the loop of validate_row_counts for one table.
CompareCounts(table, source_counts, target_counts) ==
    LET source_count == Get(source_counts, table, 0)
        target_count == Get(target_counts, table, 0)
    IN  IF source_count = target_count
        THEN << TableFinding("Row Count - ", table, "Pass", None, "1.0") >>
        ELSE << TableFinding("Row Count - ", table, "Fail",
                   Some(<<"Row count mismatch: Source=", source_count,
                          ", Target=", target_count>>), "0.8") >>

\* validate_row_counts: when a database cannot be connected the except
\* clause reports one finding of the check as a whole; else the tables of
\* the union are compared in the order the set gives them.
validate_row_counts(connected, order, source_counts, target_counts) ==
    IF ~connected
    THEN << [category |-> <<"Row Count Validation", "">>, status |-> "Fail",
             errorDetails |-> Some(<<"Failed to connect">>),
             confidenceScore |-> "0.7"] >>
    ELSE FindingsInOrder(CompareCounts, order, source_counts, target_counts)

\* The orders in which a set can be iterated.
Orders(S) ==
    {order \in [1..Cardinality(S) -> S] :
        \A i, j \in DOMAIN order : i # j => order[i] # order[j]}

\* ------------------------------------------ the data profile of extract.py
\* The quotient of two counts as a fraction in lowest terms; None for the
\* ZeroDivisionError of a division by 0.
RECURSIVE Gcd(_, _)
Gcd(a, b) == IF b = 0 THEN a ELSE Gcd(b, a % b)
Fraction(num, den) ==
    [num |-> num \div Gcd(num, den), den |-> den \div Gcd(num, den)]
Zero == [num |-> 0, den |-> 1]
Divide(num, den) == IF den = 0 THEN None ELSE Some(Fraction(num, den))

\* The share of the rows among the nulls.
NullRatio_Inverted(null_count, row_count) ==
    IF null_count > 0 THEN Divide(row_count, null_count) ELSE Some(Zero)

\* "null_count / row_count if row_count > 0 else 0".
NullRatio(null_count, row_count) ==
    IF row_count > 0 THEN Divide(null_count, row_count) ELSE Some(Zero)

\* The statistics of one column: null_query is the count the null query
\* returned, or None when it raised.  An exception in the body, that of a
\* division included, is caught and gives the statistics of zeros;
\* exception names what was caught.
ColumnStats(null_query, row_count) ==
    IF null_query = None
    THEN [null_count |-> 0, null_ratio |-> Zero, exception |-> "query"]
    ELSE IF NullRatio(null_query[1], row_count) = None
    THEN [null_count |-> 0, null_ratio |-> Zero,
          exception |-> "ZeroDivisionError"]
    ELSE [null_count |-> null_query[1],
          null_ratio |-> NullRatio(null_query[1], row_count)[1],
          exception |-> ""]

\* The profile of one table: count_query is the row count the count query
\* returned, or None when it or the column query raised.
TableProfile(count_query, null_queries) ==
    IF count_query = None THEN [row_count |-> 0, columns |-> <<>>]
    ELSE [row_count |-> count_query[1],
          columns |-> [c \in DOMAIN null_queries |->
                          ColumnStats(null_queries[c], count_query[1])]]

\* --------------------------------------- the checks called on their own
\* The writings of the data types the checks are called with.
TypeNames == {"int", "integer", "varchar", "character varying", "bigint", "text"}
TypeTexts ==
    UNION {{<<name>>, <<UpperTok(name)>>, <<" ", name>>, <<name, " ">>} :
              name \in TypeNames}

\* The schemas the structure check is called with: the columns of one table
\* on the source and on the target, each name once, or no entry for the
\* table.
ColumnNames == {"id", "name"}
ColumnTypes == {<<"int">>, <<"integer">>, <<"text">>}
SourceColumns ==
    {Column(name, type, "NO") : name \in ColumnNames, type \in ColumnTypes}
TargetColumns ==
    {Column(name, type, nullable) :
        name \in ColumnNames, type \in ColumnTypes, nullable \in {"YES", "NO"}}
SchemasOf(columns) ==
    {None} \cup {Some(schema) :
                    schema \in {s \in UNION {[1..n -> columns] : n \in 0..MaxColumns} :
                                   \A i, j \in DOMAIN s :
                                       i # j => s[i].name # s[j].name}}

\* The tables whose rows the row-count check is called with, and the counts
\* of a side: a count for a table, or no entry for it.
CountedTables == {"users", "orders"}
CountsOf == [CountedTables -> {None} \cup {Some(n) : n \in 0..MaxCount}]

\* A call of a check that has not returned.
Call(fn, connected, source, target) ==
    [fn |-> fn, pc |-> "call", connected |-> connected, source |-> source,
     target |-> target, order |-> <<>>, out |-> <<>>]

\* What a COUNT query of the data profile gives: a count, or None when
\* it raises.
CountQueries == {None} \cup {Some(n) : n \in 0..MaxCount}

\* A check is called with arguments drawn from the sets above.  The
\* structure check gets the schemas of the table "users".
ValInit ==
    /\ \/ probe \in {Call("are_equivalent_types", TRUE, type1, type2) :
                         type1 \in TypeTexts, type2 \in TypeTexts}
       \/ probe \in {Call("validate_table_structure", TRUE,
                          [table \in {"users"} |-> source_schema],
                          [table \in {"users"} |-> target_schema]) :
                         source_schema \in SchemasOf(SourceColumns),
                         target_schema \in SchemasOf(TargetColumns)}
       \/ probe \in {Call("validate_row_counts", connected, source_counts,
                          target_counts) :
                         connected \in BOOLEAN, source_counts \in CountsOf,
                         target_counts \in CountsOf}
       \/ probe \in {Call("data_profile", TRUE, count_query, null_queries) :
                         count_query \in CountQueries,
                         null_queries \in UNION {[1..n -> CountQueries] :
                                                    n \in 0..MaxColumns}}
    /\ stage = "none"
    /\ api_key = FALSE
    /\ target_type = "PostgreSQL"
    /\ status = StatusAtImport
    /\ tasks = [t \in 1..MaxRuns |-> TaskAtStart]
    /\ loop = 0
    /\ faults = 0
    /\ durable = {}
    /\ gen = [tables |-> <<>>, style |-> "fk", upper |-> FALSE,
              shape |-> "str", split |-> "whole", sep |-> "none",
              index |-> FALSE, twice |-> FALSE]
    /\ ddl_data = Render(gen)
    /\ seq_pc = "idle"
    /\ nodes = <<>>
    /\ dfs = DfsInit
    /\ statements = <<>>

\* are_equivalent_types returns.
CallAreEquivalentTypes ==
    /\ probe.fn = "are_equivalent_types" /\ probe.pc = "call"
    /\ probe' = [probe EXCEPT !.pc = "returned",
                    !.out = are_equivalent_types(probe.source, probe.target)]
    /\ UNCHANGED <<stage, api_key, target_type, status, tasks, loop, faults,
                   durable>>
    /\ UNCHANGED seq_vars

\* validate_table_structure returns: the tables of both schemas are
\* compared in the order the set of their names gives them.
CallValidateTableStructure ==
    /\ probe.fn = "validate_table_structure" /\ probe.pc = "call"
    /\ \E order \in Orders(Keys(probe.source) \cup Keys(probe.target)) :
          probe' = [probe EXCEPT !.pc = "returned", !.order = order,
                       !.out = validate_table_structure(order, probe.source,
                                                        probe.target)]
    /\ UNCHANGED <<stage, api_key, target_type, status, tasks, loop, faults,
                   durable>>
    /\ UNCHANGED seq_vars

\* validate_row_counts returns: the databases are reached or not, and the
\* counts of both sides are what get_table_row_counts returned.
CallValidateRowCounts ==
    /\ probe.fn = "validate_row_counts" /\ probe.pc = "call"
    /\ \E order \in Orders(Keys(probe.source) \cup Keys(probe.target)) :
          probe' = [probe EXCEPT !.pc = "returned", !.order = order,
                       !.out = validate_row_counts(probe.connected, order,
                                                   probe.source, probe.target)]
    /\ UNCHANGED <<stage, api_key, target_type, status, tasks, loop, faults,
                   durable>>
    /\ UNCHANGED seq_vars

\* The data profile of one table is computed.
CallDataProfile ==
    /\ probe.fn = "data_profile" /\ probe.pc = "call"
    /\ probe' = [probe EXCEPT !.pc = "returned",
                    !.out = TableProfile(probe.source, probe.target)]
    /\ UNCHANGED <<stage, api_key, target_type, status, tasks, loop, faults,
                   durable>>
    /\ UNCHANGED seq_vars

ValNext ==
    \/ CallDataProfile
    \/ CallAreEquivalentTypes
    \/ CallValidateTableStructure
    \/ CallValidateRowCounts

SpecVal == ValInit /\ [][ValNext]_vars

\* ------------------------------------------------------------------- Next
Next ==
    \/ start_extraction
    \/ migrate_structure
    \/ migrate_data
    \/ run_validation
    \/ get_extraction_status
    \/ get_structure_migration_status
    \/ get_data_migration_status
    \/ get_structure_migration_queries
    \/ get_validation_status
    \/ get_validation_report
    \/ \E t \in Runs : StructureReset(t)
    \/ \E t \in Runs : LoadExtractionResults(t)
    \/ \E t \in Runs : GetSessionInfo(t)
    \/ \E t \in Runs : TranslateSchema(t)
    \/ \E t \in Runs : ValidateSyntax(t)
    \/ \E t \in Runs : ConnectTarget(t)
    \/ \E t \in Runs : DropExistingTables(t)
    \/ \E t \in Runs : BeginApply(t)
    \/ \E t \in Runs : ExecuteStatement(t)
    \/ \E t \in Runs : DropExistingTable(t)
    \/ \E t \in Runs : RetryStatement(t)
    \/ \E t \in Runs : CommitDdl(t)
    \/ \E t \in Runs : RollbackDdl(t)
    \/ \E t \in Runs : FinalizeStructure(t)
    \/ \E t \in Runs : StructureFailed(t)
    \/ \E t \in Runs : CloseTarget(t)
    \/ \E t \in Runs : ExtractionReset(t)
    \/ \E t \in Runs : ExtractionSession(t)
    \/ \E t \in Runs : ExtractionPhase(t)
    \/ \E t \in Runs : ExtractDdl(t)
    \/ \E t \in Runs : RunCatalogQuery(t)
    \/ \E t \in Runs : CloseSource(t)
    \/ \E t \in Runs : FinalizeExtraction(t)
    \/ \E t \in Runs : ExtractionFailed(t)
    \/ \E t \in Runs : DataReset(t)
    \/ \E t \in Runs : PrepareTransfer(t)
    \/ \E t \in Runs : ConnectDatabases(t)
    \/ \E t \in Runs : PrepareTarget(t)
    \/ \E t \in Runs : BeginMigrate(t)
    \/ \E t \in Runs : MigrateTable(t)
    \/ \E t \in Runs : ValidateIntegrity(t)
    \/ \E t \in Runs : FinalizeData(t)
    \/ \E t \in Runs : DataFailed(t)
    \/ \E t \in Runs : ValidationReset(t)
    \/ \E t \in Runs : ValidationSession(t)
    \/ \E t \in Runs : ValidateConnections(t)
    \/ \E t \in Runs : ValidationPhase(t)
    \/ \E t \in Runs : GenerateReport(t)
    \/ \E t \in Runs : SaveReport(t)

Spec == StageInit /\ [][Next]_vars

\* ------------------------------------------------ runs that overlap
\* Several runs of one stage may be started.  Either the databases may
\* fail MaxOverlapFaults times, and a structure migration translates
\* without the oracle; or the structure migration asks the oracle, which
\* returns any of its replies or raises, and the databases do not fail.
LiveInit ==
    /\ \/ /\ stage \in Stages
          /\ api_key = (stage # "structure")
          /\ faults = MaxFaults - MaxOverlapFaults
       \/ /\ stage = "structure"
          /\ api_key = TRUE
          /\ faults = MaxFaults
    /\ target_type = "PostgreSQL"
    /\ status = StatusAtImport
    /\ tasks = [t \in 1..MaxOverlap |-> TaskAtStart]
    /\ loop = 0
    /\ durable = {}
    /\ probe = NoProbe
    /\ gen = [tables |-> <<>>, style |-> "fk", upper |-> FALSE,
              shape |-> "str", split |-> "whole", sep |-> "none",
              index |-> FALSE, twice |-> FALSE]
    /\ ddl_data = Render(gen)
    /\ seq_pc = "idle"
    /\ nodes = <<>>
    /\ dfs = DfsInit
    /\ statements = <<>>

\* A start request.
StartRun ==
    \/ start_extraction
    \/ migrate_structure
    \/ migrate_data
    \/ run_validation

\* The steps of background task t, but for the two below.
LightStep(t) ==
    \/ StructureReset(t)
    \/ LoadExtractionResults(t)
    \/ GetSessionInfo(t)
    \/ TranslateSchema(t)
    \/ ValidateSyntax(t)
    \/ ConnectTarget(t)
    \/ DropExistingTables(t)
    \/ ExecuteStatement(t)
    \/ RetryStatement(t)
    \/ CommitDdl(t)
    \/ RollbackDdl(t)
    \/ FinalizeStructure(t)
    \/ StructureFailed(t)
    \/ CloseTarget(t)
    \/ ExtractionReset(t)
    \/ ExtractionSession(t)
    \/ ExtractionPhase(t)
    \/ ExtractDdl(t)
    \/ RunCatalogQuery(t)
    \/ CloseSource(t)
    \/ FinalizeExtraction(t)
    \/ ExtractionFailed(t)
    \/ DataReset(t)
    \/ PrepareTransfer(t)
    \/ ConnectDatabases(t)
    \/ PrepareTarget(t)
    \/ BeginMigrate(t)
    \/ MigrateTable(t)
    \/ ValidateIntegrity(t)
    \/ FinalizeData(t)
    \/ DataFailed(t)
    \/ ValidationReset(t)
    \/ ValidationSession(t)
    \/ ValidateConnections(t)
    \/ ValidationPhase(t)
    \/ GenerateReport(t)
    \/ SaveReport(t)

\* The two steps of the structure migration that work on the text of the
\* statements, and the states in which task t can take one of them: the
\* guard of the two actions, which is all that can disable them.
ApplyStep(t) ==
    \/ BeginApply(t)
    \/ DropExistingTable(t)

ApplyReady(t) ==
    /\ stage = "structure"
    /\ tasks[t].pc \in {"apply", "drop"}
    /\ Ready(t)

\* The next step of background task t.
RunStep(t) ==
    \/ LightStep(t)
    \/ ApplyStep(t)

LiveNext ==
    \/ StartRun
    \/ \E t \in Runs : RunStep(t)

\* The event loop runs every task that can go on: a call that was made
\* returns or raises, and a task that waits is resumed once the loop is
\* free.  The last conjunct is the weak fairness of ApplyStep(t), written
\* with the states that enable it: a step of ApplyStep(t) leaves them.
SpecLive ==
    /\ LiveInit
    /\ [][LiveNext]_vars
    /\ \A t \in 1..MaxOverlap : WF_vars(LightStep(t))
    /\ \A t \in 1..MaxOverlap : []<>(~ApplyReady(t))

\* ------------------------------------------ reading the sequencer's result
\* The table a CREATE TABLE statement creates and the tables its text
\* references, both case-insensitively; "" when the text creates no table.
StmtName(stmt) ==
    LET up == Upper(stmt)
    IN  IF CreateTableName(up) = 0 THEN "" ELSE LowerTok(up[CreateTableName(up)])

StmtRefs(stmt) ==
    LET refs == AllReferences(Upper(stmt), 1)
    IN  {LowerTok(refs[i]) : i \in DOMAIN refs}

\* The DDL of the tables of the input, in input order.
InputDdls == [i \in DOMAIN gen.tables |-> TableDdl(gen, gen.tables[i])]

\* Table i references table j of the input: the DDL of table i holds
\* REFERENCES <name of table j>.  TableLines writes one such clause for each
\* entry of refs and no other, which EdgeIsInText states on the text itself.
Edge(i, j) ==
    \E r \in DOMAIN gen.tables[i].refs : gen.tables[i].refs[r] = gen.tables[j].name

EdgeIsInText ==
    \A i \in DOMAIN InputDdls, j \in DOMAIN InputDdls :
        Edge(i, j) <=> StmtName(InputDdls[j]) \in StmtRefs(InputDdls[i])

\* There is a chain of references from table i to table j.
Reaches(i, j) ==
    \E k \in 2..(Len(InputDdls) + 1) :
        \E path \in [1..k -> DOMAIN InputDdls] :
            /\ path[1] = i
            /\ path[k] = j
            /\ \A m \in 1..(k - 1) : Edge(path[m], path[m + 1])

OnCycle(i) == Reaches(i, i)
HasCycle == \E i \in DOMAIN InputDdls : OnCycle(i)

\* The places of table i's CREATE TABLE statement in the result.
PlacesOf(i) ==
    {k \in DOMAIN statements : StmtName(statements[k]) = StmtName(InputDdls[i])}

\* Every table of the input is in the result, after every table of the
\* input that it references.
OrderedAfterRefs ==
    \A i \in DOMAIN InputDdls :
        /\ PlacesOf(i) # {}
        /\ \A j \in DOMAIN InputDdls :
              Edge(i, j) =>
                  /\ PlacesOf(j) # {}
                  /\ \A pi \in PlacesOf(i), pj \in PlacesOf(j) : pj < pi

\* Every CREATE TABLE of the result comes after the CREATE TABLE of every
\* table it references, when that one is in the result too.
ResultOrdered ==
    \A p \in DOMAIN statements, q \in DOMAIN statements :
        (StmtName(statements[q]) # ""
           /\ StmtName(statements[q]) \in StmtRefs(statements[p])) => q < p

\* C1: for a list of table records (or of CREATE TABLE statements) whose
\* REFERENCES graph has no cycle, the sorted output places every table after
\* every table of the input that it references, whatever the input order.
C1_AcyclicOrder ==
    (seq_pc = "done" /\ gen.shape \in {"dict", "stmts"} /\ ~HasCycle)
        => OrderedAfterRefs

\* The work the running sort has left: the iterations of the outer loop, the
\* calls and the return of every visit on the stack, and a visit of every
\* table that is neither in progress nor done.
RECURSIVE SumOver(_, _)
SumOver(S, f) ==
    IF S = {} THEN 0
    ELSE LET x == CHOOSE y \in S : TRUE IN f[x] + SumOver(S \ {x}, f)

WorkLeft(ns, st) ==
    (Len(ns) + 1 - st.outer)
    + SumOver(DOMAIN st.stack,
              [f \in DOMAIN st.stack |->
                  Len(ns[st.stack[f].node].calls) + 2 - st.stack[f].ci])
    + SumOver({k \in DOMAIN ns : ns[k].name \notin st.visited \cup st.temp},
              [k \in DOMAIN ns |-> Len(ns[k].calls) + 2])

\* C2: given tables whose references contain a cycle (two tables that
\* reference each other, or a table that references itself), the sort
\* terminates and its output holds each table of the cycle exactly once.
\* Termination: the sort never nests deeper than the recursion limit, and
\* every step it takes leaves strictly less work, a natural number.
C2_CycleTerminates ==
    gen.shape \in {"dict", "stmts"} =>
        /\ seq_pc # "raised" /\ ~dfs.raised
        /\ (seq_pc = "sorting" /\ ~DfsDone(nodes, dfs)) =>
              /\ WorkLeft(nodes, VisitStep(nodes, dfs)) >= 0
              /\ WorkLeft(nodes, VisitStep(nodes, dfs)) < WorkLeft(nodes, dfs)
        /\ seq_pc = "done" =>
              \A i \in DOMAIN InputDdls :
                  OnCycle(i) => Cardinality(PlacesOf(i)) = 1

\* C2 witness: a finished sort of two tables that reference each other through
\* FOREIGN KEY clauses, so that the sorter meets the cycle during a visit.
C2_Witness ==
    /\ seq_pc = "done"
    /\ gen.shape = "dict" /\ gen.style = "fk" /\ ~gen.upper
    /\ Len(gen.tables) = 2
    /\ Edge(1, 2) /\ Edge(2, 1)
    /\ Len(statements) = 2

\* C3: the fragment list of one CREATE TABLE, one fragment per line
\* ("CREATE TABLE t (", "id INT", ");"), yields exactly one statement, the
\* same statement as the one extracted from the pre-joined string.
C3_ShapeEquivalence ==
    (/\ seq_pc = "done"
     /\ gen.shape = "list" /\ gen.split = "lines" /\ gen.sep = "none"
     /\ ~gen.index
     /\ Len(gen.tables) = 1)
        => /\ Len(statements) = 1
           /\ statements =
                 extract_ddl_statements(Render([gen EXCEPT !.shape = "str",
                                                           !.split = "whole"]))

\* C4: for each of the three shapes of translatedDdl (structured object,
\* fragment list, single string) the statements extracted for an acyclic
\* schema have every CREATE TABLE after the CREATE TABLE of every table it
\* references, whatever the order of the tables in the input.
C4_AllShapesOrdered ==
    (seq_pc = "done" /\ gen.shape \in {"dict", "list", "str"} /\ ~gen.index
     /\ ~HasCycle)
        => ResultOrdered

\* ------------------------------------------------ reading a run's records
\* The entries of the log of run t that are statements sent to the target
\* by apply_ddl_to_target.
IsStatement(entry) == entry.kind \in {"ddl", "drop", "retry"}

\* A message that tells of an object that exists already: it holds
\* "already exists" or "duplicate", in any case.
MentionsExisting(message) ==
    \E k \in DOMAIN message :
        message[k] \in {"already exists", "ALREADY EXISTS", "duplicate", "DUPLICATE"}

\* Entry p of the log of run t is a translated statement that the target
\* rejected for another reason than an existing object.
FatalAt(t, p) ==
    /\ tasks[t].sent[p].kind = "ddl"
    /\ tasks[t].sent[p].error # None
    /\ ~MentionsExisting(tasks[t].sent[p].error[1])

\* Run t is the only run started, so that the status record is its own.
OnlyRun(t) == \A u \in Runs \ {t} : tasks[u].pc = "unused"

\* C5: if a statement of a structure migration fails with a message that
\* does not tell of an existing object, then no later statement is executed,
\* the transaction is rolled back, the run commits nothing after it and none
\* of its translated statements is kept by the target, and the run ends with
\* done = true and a non-empty error.
C5_FatalFailureRollsBack ==
    \A t \in Runs : \A p \in DOMAIN tasks[t].sent :
        (stage = "structure" /\ FatalAt(t, p)) =>
            /\ \A q \in DOMAIN tasks[t].sent :
                  q > p => tasks[t].sent[q].kind = "rollback"
            /\ \A e \in durable : ~(e.run = t /\ e.kind = "ddl")
            /\ tasks[t].pc \in {"except", "finally", "end"} =>
                  tasks[t].sent[Len(tasks[t].sent)].kind = "rollback"
            /\ (tasks[t].pc = "end" /\ OnlyRun(t)) =>
                  /\ status.done
                  /\ status.error # None
                  /\ status.error[1] # <<>>

\* The table a CREATE TABLE statement names, as written; "" when the
\* statement creates no table.
CreatedTable(stmt) ==
    IF CreateTableName(Upper(stmt)) = 0 THEN ""
    ELSE stmt[CreateTableName(Upper(stmt))]

\* stmt is DROP TABLE IF EXISTS x CASCADE, with x quoted or not.
DropsTable(stmt, x) ==
    LET NotQuote(tok) == tok \notin {"\"", "'"}
    IN  SelectSeq(stmt, NotQuote) = <<"DROP TABLE IF EXISTS", " ", x, " ", "CASCADE">>

\* Entry p of the log of run t is a CREATE TABLE that the target rejected
\* with a message that tells of an existing object.
ExistsAt(t, p) ==
    /\ tasks[t].sent[p].kind = "ddl"
    /\ tasks[t].sent[p].error # None
    /\ MentionsExisting(tasks[t].sent[p].error[1])
    /\ CreatedTable(tasks[t].sent[p].stmt) # ""

\* The run aborted with the error of entry p: nothing is sent after entry
\* last but the rollback, and the error raised, then reported, is the
\* message of entry p under the prefixes of the two handlers.
AbortedWith(t, p, last) ==
    LET me == tasks[t]
        reported == Some(<<ApplyFailed, ApplyFailed>> \o me.sent[p].error[1])
    IN  /\ \A q \in DOMAIN me.sent : q > last => me.sent[q].kind = "rollback"
        /\ me.pc \in {"rollback", "except", "finally", "end"}
        /\ me.pc = "rollback" => me.exc = me.sent[p].error
        /\ me.pc = "except" => me.exc = reported
        /\ (me.pc \in {"finally", "end"} /\ OnlyRun(t)) =>
              status.done /\ status.error = reported

\* C6: when CREATE TABLE x (...) fails with a message holding "already
\* exists" or "duplicate", the next statement sent is DROP TABLE IF EXISTS x
\* CASCADE and, the drop accepted, the one after it is the original
\* statement again.  If the retry succeeds the run goes on with the
\* following statement and the statement counts as executed; if the drop or
\* the retry fails the run aborts with the original error.
C6_DropAndRetry ==
    \A t \in Runs :
        LET me == tasks[t]
            n == Len(me.sent)
            Accepted == {q \in DOMAIN me.sent :
                            me.sent[q].kind \in {"ddl", "retry"}
                            /\ me.sent[q].error = None}
        IN  /\ stage = "structure" => me.executed_count = Cardinality(Accepted)
            /\ \A p \in DOMAIN me.sent :
                  (stage = "structure" /\ ExistsAt(t, p)) =>
                     /\ p = n => me.pc = "drop"
                     /\ p < n =>
                           /\ DropsTable(me.sent[p + 1].stmt,
                                         CreatedTable(me.sent[p].stmt))
                           /\ me.sent[p + 1].error # None => AbortedWith(t, p, p + 1)
                           /\ (me.sent[p + 1].error = None /\ p + 1 = n) =>
                                 me.pc = "retry"
                     /\ (p + 1 < n /\ me.sent[p + 1].error = None) =>
                           /\ me.sent[p + 2].stmt = me.sent[p].stmt
                           /\ me.sent[p + 2].error # None => AbortedWith(t, p, p + 2)
                           /\ (me.sent[p + 2].error = None /\ p + 2 = n) =>
                                 /\ me.pc = "execute"
                                 /\ me.i = me.sent[p].i + 1
                           /\ (me.sent[p + 2].error = None /\ p + 2 < n) =>
                                 \/ /\ me.sent[p + 3].kind = "ddl"
                                    /\ me.sent[p + 3].i = me.sent[p].i + 1
                                 \/ /\ me.sent[p + 3].kind = "commit"
                                    /\ me.sent[p].i = Len(me.ddl_statements)

\* C6 witness: a finished run in which a CREATE TABLE was rejected as
\* existing, the table dropped, the statement accepted on the retry, and
\* the migration completed without error.
C6_Witness ==
    \E t \in Runs : \E p \in DOMAIN tasks[t].sent :
        /\ stage = "structure"
        /\ ExistsAt(t, p)
        /\ p + 2 < Len(tasks[t].sent)
        /\ tasks[t].sent[p + 1].kind = "drop" /\ tasks[t].sent[p + 1].error = None
        /\ tasks[t].sent[p + 2].kind = "retry" /\ tasks[t].sent[p + 2].error = None
        /\ tasks[t].pc = "end"
        /\ status.done /\ status.error = None /\ status.percent = 100

\* Run t has called translate_schema.
Translated(t) ==
    tasks[t].pc \notin {"unused", "queued", "load", "session", "translate"}
    \/ (tasks[t].pc = "except" /\ tasks[t].reply.kind # "unused")

\* The call of run t met one of the failure modes of the oracle: no API key
\* configured, the call raising, no content, a content that is not JSON.
OracleFailed(t) ==
    \/ ~api_key
    \/ tasks[t].reply.kind \in {"raises", "none"}
    \/ tasks[t].reply.kind = "text" /\ ~IsJson(CleanedContent(tasks[t].reply.content))

\* A result is a fallback schema: a structured schema that is not empty and
\* that holds a table customers with the DDL that creates it, with notes.
IsFallback(result) ==
    /\ result.type = "dict"
    /\ result.has_ddl
    /\ result.translated_ddl.shape = "dict"
    /\ result.translated_ddl.tables # <<>>
    /\ \E k \in DOMAIN result.translated_ddl.tables :
          /\ result.translated_ddl.tables[k].name = "customers"
          /\ CreatedTable(result.translated_ddl.tables[k].ddl) = "customers"
    /\ result.notes # ""

\* C7: in each failure mode of the oracle (no API key, the call raising, no
\* content, a content that does not parse as JSON) translate_schema returns
\* a non-empty fixed fallback schema that holds at least the customers table,
\* with notes, and the run stores that schema.
C7_FallbackNeverEmpty ==
    \A t \in Runs :
        (stage = "structure" /\ tasks[t].pc = "validate" /\ OracleFailed(t)) =>
            /\ IsFallback(translate_schema(api_key, tasks[t].reply))
            /\ status.original =
                  Some(translate_schema(api_key, tasks[t].reply).translated_ddl)

\* The errors a run reports because of what the translation step gave it.
TranslationErrors ==
    {<<"AI failed to generate DDL queries">>,
     <<"AI returned empty DDL queries">>,
     <<"object has no attribute 'get'">>,
     <<ApplyFailed, ApplyFailed, "No DDL statements found to execute">>}

\* C8: a structure migration whose oracle is unavailable, raises or returns
\* malformed output never ends with an error caused by the translation
\* step: it connects to the target and applies the fallback DDL, so that
\* with a reachable target that accepts every statement the run ends with no
\* error and with every fallback statement executed.
C8_OracleFailureNotFatal ==
    \A t \in Runs :
        (stage = "structure" /\ tasks[t].pc = "end" /\ OnlyRun(t)
           /\ Translated(t) /\ OracleFailed(t)) =>
            /\ status.done
            /\ status.error # None => status.error[1] \notin TranslationErrors
            /\ (faults = 0 /\ target_type \in SupportedTypes) =>
                  /\ status.error = None
                  /\ tasks[t].ddl_statements # <<>>
                  /\ tasks[t].executed_count = Len(tasks[t].ddl_statements)

\* C9: if the source-connection check of a validation run fails, the run
\* produces exactly one finding, a Fail, and nothing after it; if the source
\* check passes and the target check fails, the run produces these two
\* findings and no row-count, structure or later finding.  The findings a
\* finished run reports are the ones it produced.
C9_ConnectionFailureStops ==
    \A t \in Runs :
        LET results == tasks[t].results
        IN  stage = "validation" =>
              /\ (results # <<>> /\ results[1] = Finding("Source Connection", "Fail"))
                    => Len(results) = 1
              /\ (Len(results) >= 2
                    /\ results[1] = Finding("Source Connection", "Pass")
                    /\ results[2] = Finding("Target Connection", "Fail"))
                    => Len(results) = 2
              /\ (results # <<>> /\ results[1].category = "Source Connection"
                    /\ ConnectionFailed(SubSeq(results, 1, Min({2, Len(results)}))))
                    => tasks[t].pc \in {"save", "end"}
              /\ (tasks[t].pc = "end" /\ OnlyRun(t) /\ status.error = None)
                    => status.results = Some(results)

\* C9 witness: a finished validation run whose source connection failed and
\* whose report is that one finding.
C9_Witness ==
    \E t \in Runs :
        /\ stage = "validation"
        /\ tasks[t].pc = "end"
        /\ tasks[t].results = <<Finding("Source Connection", "Fail")>>
        /\ status.done
        /\ status.results = Some(<<Finding("Source Connection", "Fail")>>)

\* A step of a run that has started, other than the reset that begins it.
StepOfRun ==
    \E t \in Runs :
        /\ tasks[t].pc \notin {"unused", "queued"}
        /\ tasks'[t] # tasks[t]

\* C10: within a run of any stage the percent of the stage's status record
\* stays within 0..100 and never decreases, from the reset that begins the
\* run until the run sets done.
C10_PercentMonotone ==
    [][StepOfRun =>
          /\ status'.percent \in 0..100
          /\ status'.percent >= status.percent]_vars

\* C11: when a run of any stage has ended (its task has returned, done is
\* set), by success or by a caught failure at any step, no database
\* connection the run opened is still open.
C11_ConnectionsClosed ==
    \A t \in Runs :
        tasks[t].pc = "end" =>
            /\ status.done \/ ~OnlyRun(t)
            /\ ~tasks[t].conn.open
            /\ ~tasks[t].source_conn.open

\* The entries of the log of run t that are table copies which raised.
CopyFailedAt(t, p) ==
    /\ tasks[t].sent[p].kind = "copy"
    /\ tasks[t].sent[p].error # None

\* C12: if copying table k raises during a data migration, no table after k
\* is read or written and k is not tried again (the failed copy is the last
\* thing the run sends), every table copied before k is kept by the target,
\* and the run ends with done set and the message as its error.
C12_CopyFailureHalts ==
    \A t \in Runs : \A p \in DOMAIN tasks[t].sent :
        (stage = "data" /\ CopyFailedAt(t, p)) =>
            LET k == tasks[t].sent[p].i
            IN  /\ p = Len(tasks[t].sent)
                /\ \A q \in 1..(p - 1) : tasks[t].sent[q].i < k
                /\ \A j \in 1..(k - 1) : Effect(t, "rows", j) \in durable
                /\ \A j \in (k + 1)..Len(TablesToMigrate) :
                      Effect(t, "rows", j) \notin durable
                /\ tasks[t].pc \in {"except", "end"}
                /\ (tasks[t].pc = "end" /\ OnlyRun(t)) =>
                      /\ status.done
                      /\ status.error = tasks[t].sent[p].error
                      /\ status.percent = MigrateProgress(k - 1)

\* C12 witness: a data migration that ended after the copy of its third
\* table raised, with the first two tables kept by the target.
C12_Witness ==
    \E t \in Runs :
        /\ stage = "data"
        /\ tasks[t].pc = "end"
        /\ Len(tasks[t].sent) = 3
        /\ CopyFailedAt(t, 3)
        /\ tasks[t].sent[3].i = 3
        /\ {Effect(t, "rows", 1), Effect(t, "rows", 2)} \subseteq durable
        /\ status.done
        /\ status.error = tasks[t].sent[3].error

\* The objects the bundle of run t holds.
Extracted(t) == {tasks[t].results[j] : j \in DOMAIN tasks[t].results}

\* Catalog query q of the extraction run t, one that reads the objects of a
\* kind and not the list of the tables or of the views, has failed: the run
\* is past it without its object, or has left the extraction with its error.
QueryFailed(t, q) ==
    /\ tasks[t].source_conn.made
    /\ CatalogQueries[q].object \notin {"table list", "view list"}
    /\ \/ q < tasks[t].i /\ CatalogQueries[q].object \notin Extracted(t)
       \/ tasks[t].exc = Some(<<ExtractionFailedPrefix, CatalogQueries[q].object>>)

\* C13: during an extraction from a source that is reached, the failure of
\* one catalog query (the CREATE text of a table or a view, the trigger,
\* procedure, function, constraint, index or sequence metadata) never aborts
\* the extraction: the object is left out, the other queries are still run,
\* and the run completes with a bundle and no error.
C13_QueryFailureOmitsObject ==
    \A t \in Runs : \A q \in DOMAIN CatalogQueries :
        (stage = "extraction" /\ QueryFailed(t, q)) =>
            /\ tasks[t].exc = None
                 \/ tasks[t].exc[1][1] # ExtractionFailedPrefix
            /\ (tasks[t].pc = "end" /\ OnlyRun(t) /\ faults = 1) =>
                  /\ status.done
                  /\ status.error = None
                  /\ status.results # None
                  /\ \A r \in DOMAIN CatalogQueries :
                        r # q => CatalogQueries[r].object \in Extracted(t)

\* The findings by which a validation run tells that it could not be
\* carried out: the session or the connection records are missing, or a
\* database cannot be reached.
TellsFailure(finding) ==
    /\ finding.status = "Fail"
    /\ finding.category \in
          {"Validation Process", "Source Connection", "Target Connection"}

\* Run t has failed: an exception has reached the except clause of its
\* task, or its validation could not be carried out.
RunFailed(t) ==
    \/ tasks[t].exc # None
    \/ /\ stage = "validation"
       /\ \E j \in DOMAIN tasks[t].results : TellsFailure(tasks[t].results[j])

SourceSchema == Get(probe.source, "users", <<>>)
TargetSchema == Get(probe.target, "users", <<>>)

\* The structure check has returned a finding for the table.
StructureFound ==
    /\ probe.fn = "validate_table_structure"
    /\ probe.pc = "returned"
    /\ probe.out # <<>>

\* Some pair of columns differs in name or in nullability; some pair
\* differs in a type that is not equivalent.
NameOrNullabilityDiffers ==
    \E i \in DOMAIN SourceSchema \cap DOMAIN TargetSchema :
        \/ SourceSchema[i].name # TargetSchema[i].name
        \/ SourceSchema[i].nullable # TargetSchema[i].nullable
TypeDiffers ==
    \E i \in DOMAIN SourceSchema \cap DOMAIN TargetSchema :
        ~are_equivalent_types(SourceSchema[i].type, TargetSchema[i].type)

\* C15: the structure finding of a table is Fail when the column counts
\* differ or a column differs in name or nullability, Warning when the
\* only differences are types that are not equivalent, Pass when the
\* columns agree position by position.
C15_StructureVerdict ==
    StructureFound =>
        probe.out[1].status =
            IF Len(SourceSchema) # Len(TargetSchema) \/ NameOrNullabilityDiffers
            THEN "Fail"
            ELSE IF TypeDiffers THEN "Warning" ELSE "Pass"

\* ------------------------------------------------------------------ C16
\* The row-count check has returned after it read the counts of both sides.
CountsCompared ==
    /\ probe.fn = "validate_row_counts"
    /\ probe.pc = "returned"
    /\ probe.connected

\* The tables either side names, and the rows a side has of a table: none
\* when the side does not name it.
CountedUnion ==
    {table \in CountedTables :
        probe.source[table] # None \/ probe.target[table] # None}
RowsOf(counts, table) == IF counts[table] = None THEN 0 ELSE counts[table][1]

\* The findings about a table.
FindingsAbout(table) ==
    {i \in DOMAIN probe.out : probe.out[i].category = <<"Row Count - ", table>>}

\* C16: the row-count check gives one finding for each table either side
\* names and no other; a table a side lacks counts as 0 rows there; equal
\* counts give Pass with confidence 1.0, different counts give Fail with a
\* message that cites both counts.
C16_OneFindingPerTable ==
    CountsCompared =>
        /\ Len(probe.out) = Cardinality(CountedUnion)
        /\ \A table \in CountedUnion :
              /\ Cardinality(FindingsAbout(table)) = 1
              /\ \A i \in FindingsAbout(table) :
                    LET source_rows == RowsOf(probe.source, table)
                        target_rows == RowsOf(probe.target, table)
                        finding == probe.out[i]
                    IN  IF source_rows = target_rows
                        THEN /\ finding.status = "Pass"
                             /\ finding.confidenceScore = "1.0"
                        ELSE /\ finding.status = "Fail"
                             /\ finding.errorDetails # None
                             /\ finding.errorDetails[1][2] = source_rows
                             /\ finding.errorDetails[1][4] = target_rows

\* Two tables were compared: one has the same rows on both sides, the
\* other is on the source only and has rows there.
C16_Witness ==
    /\ CountsCompared
    /\ Cardinality(CountedUnion) = 2
    /\ \E i, j \in DOMAIN probe.out :
          /\ probe.out[i].status = "Pass"
          /\ probe.out[j].status = "Fail"
          /\ \E table \in CountedUnion :
                /\ j \in FindingsAbout(table)
                /\ probe.target[table] = None
                /\ probe.out[j].errorDetails[1][4] = 0
                /\ probe.out[j].errorDetails[1][2] > 0

\* ------------------------------------------------------------------ C17
\* are_equivalent_types has returned.
TypesCompared ==
    /\ probe.fn = "are_equivalent_types"
    /\ probe.pc = "returned"

\* C17: are_equivalent_types answers the same for the two orders of its
\* arguments, and it holds of two types that are the same text once the
\* blanks around them are dropped and they are put in lower case.
C17_SymmetricAndReflexive ==
    TypesCompared =>
        /\ probe.out = are_equivalent_types(probe.target, probe.source)
        /\ Strip(Lower(probe.source)) = Strip(Lower(probe.target)) => probe.out

\* Two writings that differ in case and in blanks were found equivalent
\* through the table of the equivalent types.
C17_Witness ==
    /\ TypesCompared
    /\ probe.out
    /\ probe.source = <<"INT">>
    /\ probe.target = <<" ", "integer">>

\* ------------------------------------------------------------------ C18
\* The step in which task t has copied table k and sets the percent.
TableCopied(t, k) ==
    /\ stage = "data"
    /\ tasks[t].pc = "migrate" /\ tasks[t].k = k
    /\ tasks'[t].pc \in {"migrate", "validate"} /\ tasks'[t].k = k + 1

\* 40 + round(k / n * 50), the half rounded up.
RoundedProgress(k, n) == 40 + (2 * k * 50 + n) \div (2 * n)

\* The percent after table k of the data migration.
PercentAfterTable ==
    \A t \in Runs : \A k \in DOMAIN TablesToMigrate :
        TableCopied(t, k) =>
            status'.percent = Min({RoundedProgress(k, Len(TablesToMigrate)), 90})

\* C18 as stated: after the k-th of the N tables the percent is
\* min(40 + round(k/N * 50), 90), and the percent of a data migration is
\* above 90 only once the finalize phase has set it to 100.
C18_ClampedUntilFinalize ==
    [][stage = "data" =>
          /\ PercentAfterTable
          /\ status'.percent > 90 =>
                /\ status'.percent = 100
                /\ status'.phase = Some("Finalizing data migration")]_vars

\* C18, amended: after the k-th of the N tables the percent is
\* min(40 + round(k/N * 50), 90); it is at most 90 until every table is
\* copied, 95 in the phase that validates the data integrity and 100 in the
\* finalize phase.
C18_ClampedWhileCopying ==
    [][stage = "data" =>
          /\ PercentAfterTable
          /\ status'.percent > 90 =>
                \/ /\ status'.percent = 95
                   /\ status'.phase = Some("Validating data integrity")
                \/ /\ status'.percent = 100
                   /\ status'.phase = Some("Finalizing data migration")
          /\ \A t \in Runs :
                tasks'[t].pc = "migrate" /\ loop' = t => status'.percent <= 90]_vars

\* Every table is copied, the percent has gone through 90 and the phase
\* that validates the data integrity shows 95.
C18_Witness ==
    /\ stage = "data"
    /\ \E t \in Runs :
          /\ tasks[t].pc = "finalize"
          /\ Len(tasks[t].sent) = Len(TablesToMigrate)
    /\ status.percent = 95
    /\ status.phase = Some("Validating data integrity")

\* ------------------------------------------------------------------ C19
\* A step of a background task, a start request and a read request.
TaskStep == \E t \in Runs : tasks[t].pc # "unused" /\ tasks'[t] # tasks[t]
StartRequest == \E t \in Runs : tasks[t].pc = "unused" /\ tasks'[t].pc = "queued"
ReadRequest == probe' # probe

\* C19 as stated: the status record of a stage changes in the steps of the
\* stage's background task only; the start handlers and the read handlers
\* change no field of it.
C19_WrittenByTaskOnly ==
    [][status' # status => TaskStep]_vars

\* C19, amended: the status record of a stage is written by the stage's
\* background task and by its start handler, which sets phase to
\* "Starting", percent to 0, done to false and error to null (and clears
\* the notes of a structure migration) and leaves the other fields; the
\* read handlers change no field of it.
C19_WrittenByTaskOrStart ==
    [][/\ status' # status => TaskStep \/ StartRequest
       /\ StartRequest =>
             /\ status'.phase = Some("Starting")
             /\ status'.percent = 0
             /\ status'.done = FALSE
             /\ status'.error = None
             /\ status'.notes = (IF stage = "structure" THEN None ELSE status.notes)
             /\ status'.original = status.original
             /\ status'.results = status.results
       /\ ReadRequest => status' = status]_vars

\* The report is read once the validation task has written its results to
\* the record the start handler had reset.
C19_Witness ==
    /\ stage = "validation"
    /\ probe = [fn |-> "get_validation_report", pc |-> "returned"]
    /\ \E t \in Runs : tasks[t].pc = "end"
    /\ status.done
    /\ status.results # None

\* ------------------------------------------------------------------ C20
\* C20: every run that is started comes to its end with done set to true,
\* also when a run of the same stage is started before or while it runs,
\* given that every call made returns or raises and that the event loop
\* resumes the tasks that wait.
C20_EveryRunSetsDone ==
    /\ [][\A t \in Runs :
             tasks[t].pc # "end" /\ tasks'[t].pc = "end" => status'.done]_vars
    /\ <>[](\A t \in Runs :
               /\ tasks[t].pc \in {"unused", "end"}
               /\ tasks[t].pc = "end" => status.done)

\* Two runs overlapped: the second was started while the first waited, and
\* both have come to their end with done set.
C20_Witness ==
    /\ \A t \in Runs : tasks[t].pc = "end"
    /\ Cardinality(Runs) >= 2
    /\ status.done
    /\ \E t \in Runs : tasks[t].exc # None

\* ------------------------------------------------------------------ C21
\* Run t extracts from a source whose engine has no extractor, and
\* extract_database_ddl has been called in it.
UnsupportedExtraction(t) ==
    /\ stage = "extraction"
    /\ tasks[t].db_type # "" /\ tasks[t].db_type \notin SupportedTypes
    /\ tasks[t].pc \in {"save", "except", "end"}

\* C21: an extraction from an engine that is not supported opens no
\* connection and raises nothing: the one failure left to the run is the
\* write of the bundle.  A run that writes it ends with done=true, no
\* error, zero objects extracted, and the bundle kept is the "unsupported"
\* one with counts of zero.  The status record is that of the run when no
\* other run of the stage was started.
C21_UnsupportedBundle ==
    \A t \in Runs :
        UnsupportedExtraction(t) =>
            /\ ~tasks[t].source_conn.made
            /\ tasks[t].exc \in {None, Some(<<"No space left on device">>)}
            /\ (tasks[t].pc = "end" /\ tasks[t].exc = None) =>
                  /\ Effect(t, "unsupported bundle", 0) \in durable
                  /\ \A e \in durable : e.run = t => e.kind = "unsupported bundle"
                  /\ OnlyRun(t) =>
                        /\ status.done
                        /\ status.error = None
                        /\ status.results = Some(<<"objects_extracted", 0>>)

\* An extraction from an Oracle source has ended and its bundle is kept.
C21_Witness ==
    \E t \in Runs :
        /\ UnsupportedExtraction(t)
        /\ tasks[t].db_type = "Oracle"
        /\ tasks[t].pc = "end"
        /\ status.done
        /\ Effect(t, "unsupported bundle", 0) \in durable

\* ------------------------------------------------------------------ C22
\* The data profile of a table has been computed from a row count.
Profiled ==
    /\ probe.fn = "data_profile"
    /\ probe.pc = "returned"
    /\ probe.source # None

\* C22: in the data profile of a table with 0 rows every column has a
\* null_ratio of 0 and no division error is raised; in that of a table
\* with rows the null_ratio of a column times the row count is its null
\* count.
C22_NullRatio ==
    Profiled =>
        \A c \in DOMAIN probe.out.columns :
            LET stats == probe.out.columns[c]
            IN  /\ stats.exception # "ZeroDivisionError"
                /\ probe.out.row_count = 0 => stats.null_ratio.num = 0
                /\ probe.out.row_count > 0 =>
                      stats.null_ratio.num * probe.out.row_count
                          = stats.null_count * stats.null_ratio.den

\* A table without rows has columns whose null queries returned, and
\* their ratio was computed without a division.
C22_Witness ==
    /\ Profiled
    /\ probe.out.row_count = 0
    /\ Len(probe.out.columns) = MaxColumns
    /\ \A c \in DOMAIN probe.out.columns :
          /\ probe.target[c] # None
          /\ probe.out.columns[c].exception = ""
          /\ probe.out.columns[c].null_ratio = Zero

\* ------------------------------------------------------------------ C23
\* The reassembler has returned for a fragment list.  Every table of a
\* generated list is a CREATE TABLE definition whose depth is back at 0
\* with its last fragment.
Reassembled == seq_pc = "done" /\ gen.shape = "list"

\* The places of the output that hold a statement creating table i of the
\* input and nothing after its definition.
OwnStatements(i) ==
    {j \in DOMAIN statements :
        /\ StmtName(statements[j]) = gen.tables[i].name
        /\ Count(Upper(statements[j]), "CREATE TABLE") = 1
        /\ Count(Upper(statements[j]), "CREATE INDEX") = 0}

\* C23: every CREATE TABLE definition of a fragment list that is closed
\* is in the output of the reassembler exactly once, as a statement of its
\* own, and the definitions are in input order; also when a CREATE TABLE
\* follows the closing fragment at once.
C23_EveryTableOnce ==
    Reassembled =>
        /\ \A i \in DOMAIN gen.tables : Cardinality(OwnStatements(i)) = 1
        /\ \A i, k \in DOMAIN gen.tables :
              i < k => \A j \in OwnStatements(i), l \in OwnStatements(k) : j < l

\* ------------------------------------------------------------------ C24
\* C24: a fragment that does not start with CREATE TABLE and comes when no
\* table definition is open is a statement of its own in the output of the
\* reassembler and is in the text of no CREATE TABLE statement.  The
\* CREATE INDEX fragment of a generated list comes after the closed
\* definition of its table.
C24_StandaloneFragment ==
    (Reassembled /\ gen.index) =>
        /\ \A i \in DOMAIN gen.tables :
              \E j \in DOMAIN statements :
                  statements[j] = IndexFragment(gen, gen.tables[i])
        /\ \A j \in DOMAIN statements :
              StartsWith(Upper(statements[j]), "CREATE TABLE")
                  => Count(Upper(statements[j]), "CREATE INDEX") = 0

\* ------------------------------------------------------------------ C25
\* Run t has opened the target connection or sent it a statement.
TargetTouched(t) ==
    \/ tasks[t].conn.made
    \/ tasks[t].sent # <<>>
    \/ \E e \in durable : e.run = t

\* The errors of a run that found no extraction artifact, no complete
\* session, or nothing in the translation.
StoppedEarly ==
    {<<"Extraction bundle not found">>,
     <<"Source or target database not selected">>,
     <<"AI failed to generate DDL queries">>}

\* A translated DDL that holds no DDL: nothing at all, a blank string, or
\* a structured schema without a table and without an index.
EmptyDdl(translated_ddl) ==
    \/ NothingGenerated(translated_ddl)
    \/ /\ translated_ddl.shape = "dict"
       /\ translated_ddl.tables = <<>>
       /\ translated_ddl.indexes = <<>>

\* C25: a structure-migration run that has opened the target connection or
\* sent a statement to the target has, before that, loaded the extraction
\* artifact, resolved the session and received a translation that is not
\* empty; a run that stopped for the lack of one of them ends with done
\* and an error and has not touched the target.
C25_TargetOnlyAfterTranslation ==
    \A t \in Runs :
        stage = "structure" =>
            /\ TargetTouched(t) =>
                  /\ Translated(t)
                  /\ tasks[t].exc = None \/ tasks[t].exc[1] \notin StoppedEarly
                  /\ LET result == translate_schema(api_key, tasks[t].reply)
                     IN  /\ result.type = "dict"
                         /\ ~EmptyDdl(result.translated_ddl)
            /\ (tasks[t].exc # None /\ tasks[t].exc[1] \in StoppedEarly) =>
                  /\ ~TargetTouched(t)
                  /\ (tasks[t].pc = "end" /\ OnlyRun(t)) =>
                        status.done /\ status.error = tasks[t].exc

\* ------------------------------------------------------------------ C26
\* Tables i and k of the input are members of one cycle of references.
SameCycle(i, k) == Reaches(i, k) /\ Reaches(k, i)

\* C26: the sorted output holds the members of a cycle of references in
\* the order of the input: of two tables of one cycle, the one that comes
\* first in the input comes first in the output.
C26_CycleInEncounterOrder ==
    (seq_pc = "done" /\ gen.shape \in {"dict", "stmts"}) =>
        \A i, k \in DOMAIN InputDdls :
            (i < k /\ SameCycle(i, k)) =>
                \A pi \in PlacesOf(i), pk \in PlacesOf(k) : pi < pk

\* ------------------------------------------------------------------ C29
\* The statements handed to the sorter: the DDL of each record of the
\* structured shape, or the statements of a statement list.
SorterInput ==
    IF ddl_data.shape = "dict"
    THEN [i \in DOMAIN ddl_data.tables |-> ddl_data.tables[i].ddl]
    ELSE ddl_data.items

\* How many times a list holds a statement.
Occurrences(list, stmt) == Cardinality({i \in DOMAIN list : list[i] = stmt})

\* C29: the output of a finished sort holds every statement (every record)
\* of the input as many times as the input holds it, and nothing else.
C29_Permutation ==
    (seq_pc = "done" /\ gen.shape \in {"dict", "stmts"}) =>
        /\ Len(statements) = Len(SorterInput)
        /\ \A i \in DOMAIN SorterInput :
              Occurrences(statements, SorterInput[i])
                  = Occurrences(SorterInput, SorterInput[i])

\* ------------------------------------------------------------------ C28
\* apply_ddl_to_target of run t has committed and returned True.
ApplyReturnedTrue(t) ==
    \E p \in DOMAIN tasks[t].sent :
        tasks[t].sent[p].kind = "commit" /\ tasks[t].sent[p].error = None

\* The target accepted statement i of run t, at once or when it was sent
\* again after the drop.
ExecutedOk(t, i) ==
    \E p \in DOMAIN tasks[t].sent :
        /\ tasks[t].sent[p].kind \in {"ddl", "retry"}
        /\ tasks[t].sent[p].i = i
        /\ tasks[t].sent[p].error = None

\* C28: when apply_ddl_to_target has committed and returned success, the
\* target has accepted every statement of the list that is not blank, at
\* once or after the drop; no statement that was rejected and not sent
\* again is left behind a commit.
C28_CommitOnlyAfterAll ==
    \A t \in Runs :
        (stage = "structure" /\ ApplyReturnedTrue(t)) =>
            \A i \in DOMAIN tasks[t].ddl_statements :
                ~IsBlankStatement(tasks[t].ddl_statements[i]) => ExecutedOk(t, i)

\* ------------------------------------------------------------------ C30
\* C30: in every stage, a status record of a single run that reads done
\* with no error reads percent 100.
C30_DoneWithoutErrorIsComplete ==
    (stage \in Stages /\ status.done /\ status.error = None)
        => status.percent = 100

\* ------------------------------------------------------------------ C27
\* Run t has taken its first step and not its last.
Executing(t) == tasks[t].pc \notin {"unused", "queued", "end"}

\* C27: whatever the interleaving of the start requests and the steps of
\* the runs of a stage, a status record that a request can read as done
\* belongs to a stage none of whose runs is still executing, and a record
\* that reads done is changed by nothing but a start request.
C27_DoneIsFinal ==
    /\ [](\A t \in Runs : (loop = 0 /\ status.done) => ~Executing(t))
    /\ [][(loop = 0 /\ status.done /\ status' # status) => StartRequest]_vars

====
